---- MODULE Spec2Model ----
(***************************************************************************)
(* A model of the crabeye MCP bridge core: the Tool Registry, the upstream *)
(* client state machine (HTTP and STDIO variants share it) and the         *)
(* Upstream Manager with its health loop.                                  *)
(*                                                                         *)
(* Every asynchronous function of the code is cut at its await points:     *)
(* one action runs a handler from one suspension point to the next.        *)
(***************************************************************************)
EXTENDS Integers, Sequences, FiniteSets, TLC

VARIABLES
    registry,   \* ToolRegistry: [tools, sourceIndex, sourceCategories]
    upstream,   \* the upstream client objects: object id -> fields and positions
    manager,    \* UpstreamManager: its fields and the position of its async method
    probe,      \* per client object: the pings the health loop has outstanding
    bridge,     \* BridgeServer and PolicyEngine: the policies and the tools/call requests
    watcher,    \* ConfigWatcher: its fields, the config file and the reloads in flight
    search,     \* ToolSearchService: the indexed tools and the enabled set
    lastOp      \* the operation that produced the current state, with its locals

vars == <<registry, upstream, manager, probe, bridge, watcher, search, lastOp>>

(***************************************************************************)
(* Bounds of the model                                                     *)
(***************************************************************************)
\* Longest tool list handed to setToolsForSource.
MaxTools == 2
\* Number of distinct definitions (versions) a tool of one name can have.
MaxVersions == 2
\* Number of _doConnect runs (epochs) one client object is followed through.
MaxEpoch == 3
\* Number of connect() calls that may await one pending connect promise.
MaxCallers == 2
\* The client option maxReconnectAttempts (5 when not configured).
MaxReconnectAttempts == 2
\* The client options reconnectBaseDelay and reconnectMaxDelay, in seconds.
ReconnectBaseDelay == 2
ReconnectMaxDelay == 3
\* Number of client objects the manager's factory makes.
MaxClients == 2
\* Length of the tool lists an upstream serves.
MaxUpTools == 1
\* Number of tools/call requests the bridge handles at a time.
MaxCalls == 1
\* File-system events the watcher receives.
MaxFileEvents == 4
\* MAX_LIMIT and DEFAULT_LIMIT of the search service (50 and 10 in the
\* source), scaled down so that the registry can hold more tools than the cap.
MAX_LIMIT == 2
DEFAULT_LIMIT == 1
\* Queries in one search_tools call.
MaxQueries == 2
\* Length of the server names and tool names that are namespaced.
MaxNameLen == 2

(***************************************************************************)
(* Generic helpers for JavaScript Map objects (partial functions)          *)
(***************************************************************************)
EmptyMap == [k \in {} |-> {}]

MapHas(m, k) == k \in DOMAIN m

MapSet(m, k, v) == [x \in (DOMAIN m) \cup {k} |-> IF x = k THEN v ELSE m[x]]

MapDelete(m, k) == [x \in (DOMAIN m) \ {k} |-> m[x]]

MapDeleteAll(m, ks) == [x \in (DOMAIN m) \ ks |-> m[x]]

Range(s) == {s[i] : i \in DOMAIN s}

SeqsUpTo(S, n) == UNION {[1..k -> S] : k \in 0..n}

(***************************************************************************)
(* Tool Registry (src/src/server/tool-registry.ts)                         *)
(***************************************************************************)
RegSources == {"A", "B"}
RegNames == {"x", "y"}
Versions == 1..MaxVersions

\* A Tool is opaque but for its name; ver stands for the rest of the definition.
RegTool == [name : RegNames, ver : Versions]
RegToolLists == SeqsUpTo(RegTool, MaxTools)

EmptyRegistry ==
    [tools |-> EmptyMap, sourceIndex |-> EmptyMap, sourceCategories |-> EmptyMap]

\* getTool(name): the entry, or the string "undefined".
getTool(reg, name) ==
    IF MapHas(reg.tools, name) THEN reg.tools[name] ELSE "undefined"

\* The name-set the index holds for a source ({} when it holds none).
NameSet(reg, source) ==
    IF MapHas(reg.sourceIndex, source) THEN reg.sourceIndex[source] ELSE {}

\* Lines 53-56: tools.set(tool.name, {source, tool}) for each tool in order,
\* so the last tool of a name wins.
InstallTools(toolMap, source, ts) ==
    LET names == {ts[i].name : i \in DOMAIN ts}
        last(n) == CHOOSE i \in DOMAIN ts :
                       /\ ts[i].name = n
                       /\ \A j \in DOMAIN ts : ts[j].name = n => j <= i
    IN [n \in (DOMAIN toolMap) \cup names |->
            IF n \in names THEN [source |-> source, tool |-> ts[last(n)]]
            ELSE toolMap[n]]

\* Lines 45-50: every name of the source's old name-set is deleted from the
\* main map, whoever owns the entry now.
DeleteOldNames(toolMap, source, oldNames) == MapDeleteAll(toolMap, oldNames)

setToolsForSource(reg, source, ts) ==
    LET oldNames == NameSet(reg, source)
        cleared == DeleteOldNames(reg.tools, source, oldNames)
        newNames == {ts[i].name : i \in DOMAIN ts}
    IN [reg EXCEPT !.tools = InstallTools(cleared, source, ts),
                   !.sourceIndex = MapSet(reg.sourceIndex, source, newNames)]

\* Lines 70-76 with the ownership test dropped (a mutant of OwnedNames).
OwnedNamesNoCheck(reg, source, names) == names \cap DOMAIN reg.tools

\* Lines 70-76: the names of the set whose current entry is still owned by source.
OwnedNames(reg, source, names) ==
    {n \in names : MapHas(reg.tools, n) /\ reg.tools[n].source = source}

removeSource(reg, source) ==
    LET names == NameSet(reg, source)
    IN IF names = {}
       THEN [reg EXCEPT !.sourceIndex = MapDelete(reg.sourceIndex, source)]
       ELSE [reg EXCEPT
                !.tools = MapDeleteAll(reg.tools, OwnedNames(reg, source, names)),
                !.sourceIndex = MapDelete(reg.sourceIndex, source),
                !.sourceCategories = MapDelete(reg.sourceCategories, source)]

\* Lines 69-82: notify() runs only when an entry was deleted.
removeSourceNotifies(reg, source) == OwnedNames(reg, source, NameSet(reg, source)) # {}

setCategoryForSource(reg, source, category) ==
    [reg EXCEPT !.sourceCategories = MapSet(reg.sourceCategories, source, category)]

RegCategories == {"dev"}

NoOp == [op |-> "init"]

RegInit ==
    /\ registry = EmptyRegistry
    /\ upstream = EmptyMap
    /\ manager = EmptyMap
    /\ probe = EmptyMap
    /\ bridge = EmptyMap
    /\ watcher = EmptyMap
    /\ search = EmptyMap
    /\ lastOp = NoOp

RegSetTools ==
    \E s \in RegSources, ts \in RegToolLists :
        /\ registry' = setToolsForSource(registry, s, ts)
        /\ lastOp' = [op |-> "setToolsForSource", source |-> s, tools |-> ts,
                      names |-> NameSet(registry, s), notified |-> TRUE]
        /\ UNCHANGED <<upstream, manager, probe, bridge, watcher, search>>

RegRemoveSource ==
    \E s \in RegSources :
        /\ registry' = removeSource(registry, s)
        /\ lastOp' = [op |-> "removeSource", source |-> s,
                      names |-> NameSet(registry, s),
                      notified |-> removeSourceNotifies(registry, s)]
        /\ UNCHANGED <<upstream, manager, probe, bridge, watcher, search>>

RegSetCategory ==
    \E s \in RegSources, cat \in RegCategories :
        /\ registry' = setCategoryForSource(registry, s, cat)
        /\ lastOp' = [op |-> "setCategoryForSource", source |-> s]
        /\ UNCHANGED <<upstream, manager, probe, bridge, watcher, search>>

RegNext == RegSetTools \/ RegRemoveSource \/ RegSetCategory

RegistrySpec == RegInit /\ [][RegNext]_vars

(***************************************************************************)
(* Claims about the Tool Registry (checked under RegistrySpec)             *)
(***************************************************************************)

\* C1: after any sequence of setToolsForSource / removeSource calls, every
\* entry name -> {source, tool} of the main map has its name in that source's
\* name-set and in no other source's name-set.
C1_RegistryOwnership ==
    \A n \in DOMAIN registry.tools :
        LET s == registry.tools[n].source
        IN /\ n \in NameSet(registry, s)
           /\ \A o \in (DOMAIN registry.sourceIndex) \ {s} :
                  n \notin registry.sourceIndex[o]

\* C2: removeSource never steals. A removeSource(A) step taken when A's
\* name-set still holds x (A owned x) and the entry of x is owned by another
\* source B (B has since called setToolsForSource(B, [.. x ..])) leaves the
\* entry of x in the registry, unchanged, owned by B.
C2_RemoveNeverSteals ==
    [][\A a \in RegSources, x \in RegNames :
          (/\ lastOp'.op = "removeSource"
           /\ lastOp'.source = a
           /\ x \in NameSet(registry, a)
           /\ MapHas(registry.tools, x)
           /\ registry.tools[x].source # a)
          => (/\ MapHas(registry'.tools, x)
              /\ getTool(registry', x) = getTool(registry, x))]_vars

\* Witness of C2: removeSource(A) has just run over a name-set holding a name
\* whose entry is owned by another source, and the entry is there.
C2_Witness ==
    /\ lastOp.op = "removeSource"
    /\ \E x \in lastOp.names :
          /\ MapHas(registry.tools, x)
          /\ registry.tools[x].source # lastOp.source

\* C3: setToolsForSource(S, tools) removes every tool previously owned by S,
\* installs the new set, and changes nothing else: every entry owned by a
\* different source whose name is not in the new list stays, with the same
\* owner and tool.
C3_SetToolsFrame ==
    [][lastOp'.op = "setToolsForSource" =>
          LET s == lastOp'.source
              newNames == {lastOp'.tools[i].name : i \in DOMAIN lastOp'.tools}
          IN /\ \A n \in DOMAIN registry.tools :
                    (registry.tools[n].source = s /\ n \notin newNames)
                        => ~MapHas(registry'.tools, n)
             /\ \A n \in newNames :
                    /\ MapHas(registry'.tools, n)
                    /\ registry'.tools[n].source = s
             /\ \A n \in DOMAIN registry.tools :
                    (registry.tools[n].source # s /\ n \notin newNames)
                        => /\ MapHas(registry'.tools, n)
                           /\ registry'.tools[n] = registry.tools[n]]_vars

(***************************************************************************)
(* Upstream client (src/src/upstream/http-client.ts; stdio-client.ts has   *)
(* the same state machine and differs only in _createTransport)            *)
(*                                                                         *)
(* The MCP library is the environment: a transport can be closed by the    *)
(* peer at any time after it was created, client.connect and               *)
(* client.listTools succeed only on an open transport and may fail at any  *)
(* time, and Client.close() is taken to resolve.                           *)
(***************************************************************************)
\* The tools an upstream can announce.
UpNames == {<<"t">>}
UpTool == [name : UpNames, ver : Versions]
UpToolLists == SeqsUpTo(UpTool, MaxUpTools)

\* Who awaits the promise of a connect() call.
Origins == {"user", "timer", "manager", "health"}

\* Lines 28-42 (field initialisers), plus the positions of the two async
\* methods: pc (connect/_doConnect) and closePc (close), their locals old
\* and client, the callers awaiting _connectPromise, the transports made by
\* _createTransport that have not closed yet (keyed by the epoch that made
\* them), the number of _createTransport calls, and closeReturned: close()
\* has returned and connect() has not been called from outside since.
\* reconnectTimer says whether the field _reconnectTimer holds a handle;
\* timers counts the setTimeout callbacks of line 224 that are pending
\* (set, neither fired nor cancelled by clearTimeout).
NewClient ==
    [status |-> "disconnected", tools |-> <<>>, client |-> 0, closed |-> FALSE,
     epoch |-> 0, connectPromise |-> FALSE, reconnectAttempt |-> 0,
     reconnectTimer |-> FALSE, reconnectDelay |-> 0, timers |-> 0,
     pc |-> "idle", old |-> 0, closePc |-> "idle", closing |-> 0,
     waiters |-> <<>>, transports |-> EmptyMap, factoryCalls |-> 0,
     closeReturned |-> FALSE]

\* What a handler has done so far: the client's fields, the status events
\* delivered to the status listeners and the tool lists delivered to the
\* tools listeners, in order.
Run(c) == [c |-> c, events |-> <<>>, notified |-> <<>>]

Min(a, b) == IF a <= b THEN a ELSE b

RECURSIVE Pow2(_)
Pow2(n) == IF n = 0 THEN 1 ELSE 2 * Pow2(n - 1)

\* Lines 179-196.
SetStatus(r, next) ==
    IF r.c.status = next THEN r
    ELSE [r EXCEPT !.c.status = next,
                   !.events = Append(@, [previous |-> r.c.status, current |-> next])]

\* Lines 198-206.
NotifyToolsChanged(r) == [r EXCEPT !.notified = Append(@, r.c.tools)]

\* Lines 232-237 without the clearTimeout call of line 234 (a mutant of
\* ClearReconnectTimer): the handle is dropped, its timer stays pending.
ClearReconnectTimerKeepsTimeout(r) ==
    [r EXCEPT !.c.reconnectTimer = FALSE, !.c.reconnectDelay = 0]

\* Lines 232-237.
ClearReconnectTimer(r) ==
    IF ~r.c.reconnectTimer THEN r
    ELSE [r EXCEPT !.c.timers = @ - 1, !.c.reconnectTimer = FALSE,
                   !.c.reconnectDelay = 0]

\* Lines 218-221.
\* A backoff without the cap.
BackoffDelayUncapped(attempt) == ReconnectBaseDelay * Pow2(attempt)

BackoffDelay(attempt) == Min(ReconnectBaseDelay * Pow2(attempt), ReconnectMaxDelay)

\* Lines 224-229: setTimeout, its handle stored in _reconnectTimer.
SetReconnectTimer(r) == [r EXCEPT !.c.timers = @ + 1, !.c.reconnectTimer = TRUE]

\* Lines 208-230 without the test of line 211 (a mutant of ScheduleReconnect).
ScheduleReconnectWhileConnecting(r) ==
    IF r.c.closed THEN r
    ELSE IF r.c.reconnectTimer THEN r
    ELSE IF r.c.reconnectAttempt >= MaxReconnectAttempts THEN SetStatus(r, "error")
    ELSE SetReconnectTimer([r EXCEPT !.c.reconnectDelay = BackoffDelay(r.c.reconnectAttempt),
                                     !.c.reconnectAttempt = @ + 1])

\* Lines 208-230 (the timer's callback is TimerCallback).
ScheduleReconnect(r) ==
    IF r.c.closed THEN r
    ELSE IF r.c.reconnectTimer THEN r
    ELSE IF r.c.connectPromise THEN r
    ELSE IF r.c.reconnectAttempt >= MaxReconnectAttempts THEN SetStatus(r, "error")
    ELSE SetReconnectTimer([r EXCEPT !.c.reconnectDelay = BackoffDelay(r.c.reconnectAttempt),
                                     !.c.reconnectAttempt = @ + 1])

\* Lines 82-109: from _setStatus("connecting") to the await of client.connect.
OpenTransport(r) ==
    LET r1 == SetStatus(r, "connecting")
    IN [r1 EXCEPT !.c.transports = MapSet(@, r.c.epoch, "starting"),
                  !.c.factoryCalls = @ + 1,
                  !.c.pc = "connect"]

\* Lines 69-80: _doConnect up to its first await.
DoConnect(r) ==
    LET r1 == ClearReconnectTimer([r EXCEPT !.c.closed = FALSE])
        r2 == [r1 EXCEPT !.c.epoch = @ + 1]
    IN IF r2.c.client # 0
       THEN [r2 EXCEPT !.c.old = r2.c.client, !.c.client = 0, !.c.pc = "closeOld"]
       ELSE OpenTransport(r2)

\* Line 62 without the test (a mutant of HasConnectPromise).
NeverHasConnectPromise(c) == FALSE

\* Line 62: is a connect promise pending?
HasConnectPromise(c) == c.connectPromise

\* Lines 61-67: connect() called by origin.
Connect(r, origin) ==
    LET r0 == [r EXCEPT !.c.closeReturned = @ /\ origin = "timer"]
    IN IF HasConnectPromise(r0.c)
       THEN [r0 EXCEPT !.c.waiters = Append(@, origin)]
       ELSE LET r1 == DoConnect(r0)
            IN [r1 EXCEPT !.c.connectPromise = TRUE, !.c.waiters = <<origin>>]

\* Lines 224-228: the callback of a pending reconnect timer runs; the catch
\* of line 226 is part of Settle.
TimerCallback(r) ==
    Connect([r EXCEPT !.c.timers = @ - 1, !.c.reconnectTimer = FALSE,
                      !.c.reconnectDelay = 0], "timer")

\* Lines 63-65 and 226-228: the promise of _doConnect settles; finally()
\* clears _connectPromise, then the handlers of the callers run: the
\* reconnect timer's catch calls _scheduleReconnect.
Settle(r, outcome) ==
    LET waiting == Range(r.c.waiters)
        r1 == [r EXCEPT !.c.connectPromise = FALSE, !.c.pc = "idle", !.c.waiters = <<>>]
    IN IF outcome = "rejected" /\ "timer" \in waiting THEN ScheduleReconnect(r1) ELSE r1

\* Lines 117-120 without the _setStatus call (a mutant of CatchConnectError).
CatchKeepsStatus(r) == r

\* Lines 117-120: the catch block of _doConnect.
CatchConnectError(r) == SetStatus(r, "disconnected")

\* Lines 111-116: listTools resolved with ts.
Connected(r, ts) ==
    LET r1 == [r EXCEPT !.c.tools = ts, !.c.client = r.c.epoch, !.c.reconnectAttempt = 0]
    IN NotifyToolsChanged(SetStatus(r1, "connected"))

\* Lines 92-96 without the epoch test (a mutant of OnToolsChanged).
OnToolsChangedAnyEpoch(r, myEpoch, ts) ==
    NotifyToolsChanged([r EXCEPT !.c.tools = ts])

\* Lines 92-96: the tool-list-changed callback registered in epoch myEpoch.
OnToolsChanged(r, myEpoch, ts) ==
    IF r.c.epoch # myEpoch THEN r
    ELSE NotifyToolsChanged([r EXCEPT !.c.tools = ts])

\* Lines 102-107: the transport close callback registered in epoch myEpoch.
OnTransportClose(r, myEpoch) ==
    IF r.c.closed \/ r.c.epoch # myEpoch THEN r
    ELSE ScheduleReconnect(SetStatus([r EXCEPT !.c.client = 0], "disconnected"))

\* Lines 145-146.
FinishClose(r) ==
    SetStatus([r EXCEPT !.c.tools = <<>>, !.c.closeReturned = TRUE], "disconnected")

\* Lines 135-147 without the _clearReconnectTimer call of line 137 (a mutant
\* of Close).
CloseKeepsTimer(r) ==
    LET r1 == [r EXCEPT !.c.closed = TRUE, !.c.closeReturned = FALSE]
    IN IF r1.c.client # 0
       THEN [r1 EXCEPT !.c.closing = r1.c.client, !.c.client = 0, !.c.closePc = "closing"]
       ELSE FinishClose(r1)

\* Lines 135-147: close() up to its await, or to its end when no Client is held.
Close(r) ==
    LET r1 == ClearReconnectTimer([r EXCEPT !.c.closed = TRUE, !.c.closeReturned = FALSE])
    IN IF r1.c.client # 0
       THEN [r1 EXCEPT !.c.closing = r1.c.client, !.c.client = 0, !.c.closePc = "closing"]
       ELSE FinishClose(r1)

(***************************************************************************)
(* Upstream Manager (src/unnamed/part_002, lines 1-335)                    *)
(*                                                                         *)
(* The operators below work on a record w of the four variables, so that   *)
(* one action can run a client handler, the manager's observers it         *)
(* notifies and the manager continuation that was awaiting it, as the      *)
(* single-threaded runtime does before it takes the next event.            *)
(***************************************************************************)
\* The upstream names configurations use, in the order of their entries.
ConfigOrder == << <<"a">>, <<"b">>, <<"a", "_", "_", "b">> >>

UpstreamNames == Range(ConfigOrder)

\* The names of a set in the order of the configuration's entries.
InOrder(S) == SelectSeq(ConfigOrder, LAMBDA n : n \in S)

\* A server config is its connection-identifying fields (config-diff.ts lines
\* 20-33; conn stands for {type, url, headers} or {command, args, env}) and
\* its _bridge block, of which category is kept ("" when it has none).
Conns == {"u1", "u2"}
NoCategory == ""
ServerConfig == [conn : Conns, category : {NoCategory} \cup RegCategories]

\* schema.ts resolveUpstreams: the name -> server config object of a config.
resolveUpstreams(config) == config

\* The configurations with upstreams among names and server configs in servers.
ConfigsOver(names, servers) == UNION {[S -> servers] : S \in SUBSET names}

\* tool-namespacing.ts (in http-client.ts, lines 242-249).
NAMESPACE_SEPARATOR == <<"_", "_">>

namespaceTool(source, tool) ==
    [tool EXCEPT !.name = source \o NAMESPACE_SEPARATOR \o tool.name]

\* part_002 line 54.
UnhealthyThreshold == 3

Idle == [kind |-> "idle"]

\* part_002 lines 47-54 (field initialisers); created counts the clients the
\* factory has made (the id of the latest), op is the async method in flight.
\* result holds what connectAll() resolved with (empty before it has).
\* closeAll is the position of closeAll(): the names and the client objects
\* it read on lines 164-166 and the objects whose close() it still awaits.
NotClosingAll == [pc |-> "idle", names |-> {}, objs |-> {}, awaiting |-> {}]

NewManager ==
    [config |-> EmptyMap, clients |-> EmptyMap, unsubscribers |-> EmptyMap,
     healthTimer |-> FALSE, healthTracking |-> EmptyMap, pingsInFlight |-> {},
     created |-> 0, op |-> Idle, result |-> {}, closeAll |-> NotClosingAll]

World == [registry |-> registry, upstream |-> upstream, manager |-> manager,
          probe |-> probe]

Becomes(w) ==
    /\ registry' = w.registry
    /\ upstream' = w.upstream
    /\ manager' = w.manager
    /\ probe' = w.probe
    /\ UNCHANGED <<bridge, watcher, search>>

\* The name under which the manager's listeners are subscribed to object o.
Subscribed(w, o) ==
    {n \in DOMAIN w.manager.unsubscribers : w.manager.unsubscribers[n] = o}

\* part_002 lines 90-96: the onToolsChanged listener, once per notification.
RECURSIVE ToolsListener(_, _, _)
ToolsListener(reg, name, notified) ==
    IF notified = <<>> THEN reg
    ELSE LET ts == Head(notified)
             namespaced == [i \in DOMAIN ts |-> namespaceTool(name, ts[i])]
         IN ToolsListener(setToolsForSource(reg, name, namespaced), name, Tail(notified))

\* part_002 lines 98-107: the onStatusChange listener, for the events of one
\* handler run (a run that raises an error event notifies no tool list).
StatusListener(reg, name, events) ==
    IF \E i \in DOMAIN events : events[i].current = "error"
    THEN removeSource(reg, name)
    ELSE reg

\* The listeners of object o receive what the handler run r delivered.
Deliver(w, o, r) ==
    IF Subscribed(w, o) = {} THEN w
    ELSE LET name == CHOOSE n \in Subscribed(w, o) : TRUE
         IN [w EXCEPT !.registry =
                ToolsListener(StatusListener(@, name, r.events), name, r.notified)]

\* probe[o] follows the pings of client object o: the name it was made for,
\* the number of its pings that have not settled, and the number of its
\* pings that failed in a row (since its last successful ping, its last
\* reconnect() or its last full run of UnhealthyThreshold failures).
\* Objects the manager has dropped are followed no further; their probe
\* entry is kept while a ping of theirs is outstanding.
Collect(w) ==
    [w EXCEPT !.probe = [o \in {x \in DOMAIN w.probe :
                                   x \in DOMAIN w.upstream \/ w.probe[x].out > 0}
                            |-> w.probe[o]]]

\* part_002 lines 72-119: _addClient up to the promise it returns.
AddClient(w, name, serverConfig) ==
    LET o == w.manager.created + 1
        r == Connect(Run(NewClient), "manager")
        category == serverConfig.category
        w1 == [w EXCEPT !.manager.created = o,
                        !.manager.clients = MapSet(@, name, o),
                        !.registry = IF category # NoCategory
                                     THEN setCategoryForSource(@, name, category)
                                     ELSE @,
                        !.manager.unsubscribers = MapSet(@, name, o),
                        !.upstream = MapSet(@, o, r.c),
                        !.probe = MapSet(@, o, [name |-> name, config |-> serverConfig,
                                                out |-> 0, streak |-> 0])]
    IN Deliver(w1, o, r)

\* part_002 lines 121-130: _removeClient up to the end of client.close()'s
\* synchronous part.
RemoveClientBegin(w, name) ==
    LET w1 == [w EXCEPT !.manager.unsubscribers = MapDelete(@, name)]
    IN IF MapHas(w.manager.clients, name)
       THEN LET o == w.manager.clients[name]
            IN [w1 EXCEPT !.upstream[o] = Close(Run(w.upstream[o])).c]
       ELSE w1

\* part_002 lines 131-136: _removeClient after the await.
RemoveClientFinish(w, name) ==
    LET gone == IF MapHas(w.manager.clients, name) THEN {w.manager.clients[name]} ELSE {}
    IN Collect([w EXCEPT !.manager.clients = MapDelete(@, name),
                         !.registry = removeSource(@, name),
                         !.manager.healthTracking = MapDelete(@, name),
                         !.manager.pingsInFlight = @ \ {name},
                         !.upstream = MapDeleteAll(@, gone)])

IsClosing(w, name) ==
    /\ MapHas(w.manager.clients, name)
    /\ w.upstream[w.manager.clients[name]].closePc = "closing"

IsConnecting(w, name) ==
    /\ MapHas(w.manager.clients, name)
    /\ w.upstream[w.manager.clients[name]].connectPromise

\* ToolRegistry.removeCategoryForSource is not in tool-registry.ts; by its
\* name and its use it deletes the source's entry of the category index.
removeCategoryForSource(reg, source) ==
    [reg EXCEPT !.sourceCategories = MapDelete(@, source)]

\* part_002 lines 212-221: the metadata-only entries.
RECURSIVE UpdateMetadata(_, _, _)
\* A metadata update that also drops the tools of the updated upstreams.
UpdateMetadataDropsTools(reg, names, newConfig) ==
    [reg EXCEPT !.tools = [n \in {t \in DOMAIN reg.tools :
                                      reg.tools[t].source \notin Range(names)}
                              |-> reg.tools[n]]]

UpdateMetadata(reg, names, newConfig) ==
    IF names = <<>> THEN reg
    ELSE LET name == Head(names)
             category == resolveUpstreams(newConfig)[name].category
         IN UpdateMetadata(IF category # NoCategory
                           THEN setCategoryForSource(reg, name, category)
                           ELSE removeCategoryForSource(reg, name),
                           Tail(names), newConfig)

\* part_002 lines 182-224: applyConfigDiff from the top of its loops to its
\* next pending await (or to its end). op holds the entries still to do.
RECURSIVE RunApply(_)
RunApply(w) ==
    LET op == w.manager.op
        configOf(name) == resolveUpstreams(op.newConfig)[name]
    IN IF op.removed # <<>>
       THEN LET name == Head(op.removed)
                w1 == RemoveClientBegin(w, name)
            IN IF IsClosing(w1, name)
               THEN [w1 EXCEPT !.manager.op.stage = "removed.close"]
               ELSE RunApply([RemoveClientFinish(w1, name) EXCEPT
                                 !.manager.op.removed = Tail(op.removed)])
       ELSE IF op.reconnect # <<>>
       THEN LET name == Head(op.reconnect)
                w1 == RemoveClientBegin(w, name)
            IN IF IsClosing(w1, name)
               THEN [w1 EXCEPT !.manager.op.stage = "reconnect.close"]
               ELSE [AddClient(RemoveClientFinish(w1, name), name, configOf(name)) EXCEPT
                        !.manager.op.stage = "reconnect.connect"]
       ELSE IF op.added # <<>>
       THEN [AddClient(w, Head(op.added), configOf(Head(op.added))) EXCEPT
                !.manager.op.stage = "added.connect"]
       ELSE [w EXCEPT !.registry = UpdateMetadata(@, op.updated, op.newConfig),
                      !.manager.config = op.newConfig,
                      !.manager.op = Idle]

\* part_002 lines 139-147: connectAll makes every client before it awaits.
RECURSIVE AddAll(_, _)
AddAll(w, names) ==
    IF names = <<>> THEN w
    ELSE AddAll(AddClient(w, Head(names), resolveUpstreams(w.manager.config)[Head(names)]),
                Tail(names))

\* part_002 lines 147-153: the value connectAll resolves with.
ConnectAllResult(total, failed) ==
    [total |-> total, connected |-> total - Cardinality(failed), failed |-> failed]

\* part_002 lines 111-118 and 147: the promise _addClient returned for name
\* settles; Promise.all resolves when the last one has.
\* A connectAll that reports no failure.
ConnectSettledForgets(w, name, ok) ==
    LET op == w.manager.op
        pending == op.pending \ {name}
    IN IF pending = {}
       THEN [w EXCEPT !.manager.op = Idle,
                      !.manager.result = {ConnectAllResult(op.total, op.failed)}]
       ELSE [w EXCEPT !.manager.op.pending = pending]

ConnectSettled(w, name, ok) ==
    LET op == w.manager.op
        pending == op.pending \ {name}
        failed == IF ok THEN op.failed ELSE op.failed \cup {name}
    IN IF pending = {}
       THEN [w EXCEPT !.manager.op = Idle,
                      !.manager.result = {ConnectAllResult(op.total, failed)}]
       ELSE [w EXCEPT !.manager.op.pending = pending, !.manager.op.failed = failed]

\* The manager method that was awaiting a close() or connect() promise goes
\* on as soon as the promise has settled.
ResumeManager(w) ==
    LET op == w.manager.op
    IN IF op.kind # "apply" THEN w
       ELSE IF op.stage = "removed.close" /\ ~IsClosing(w, Head(op.removed))
       THEN RunApply([RemoveClientFinish(w, Head(op.removed)) EXCEPT
                         !.manager.op.removed = Tail(op.removed),
                         !.manager.op.stage = "run"])
       ELSE IF op.stage = "reconnect.close" /\ ~IsClosing(w, Head(op.reconnect))
       THEN [AddClient(RemoveClientFinish(w, Head(op.reconnect)), Head(op.reconnect),
                       resolveUpstreams(op.newConfig)[Head(op.reconnect)])
                EXCEPT !.manager.op.stage = "reconnect.connect"]
       ELSE IF op.stage = "reconnect.connect" /\ ~IsConnecting(w, Head(op.reconnect))
       THEN RunApply([w EXCEPT !.manager.op.reconnect = Tail(op.reconnect),
                               !.manager.op.stage = "run"])
       ELSE IF op.stage = "added.connect" /\ ~IsConnecting(w, Head(op.added))
       THEN RunApply([w EXCEPT !.manager.op.added = Tail(op.added),
                               !.manager.op.stage = "run"])
       ELSE w

\* part_002 lines 173-179: closeAll after its await.
RECURSIVE RemoveSources(_, _)
RemoveSources(reg, names) ==
    IF names = <<>> THEN reg
    ELSE RemoveSources(removeSource(reg, Head(names)), Tail(names))

CloseAllFinish(w) ==
    [w EXCEPT !.registry = RemoveSources(@, InOrder(w.manager.closeAll.names)),
              !.manager.clients = EmptyMap,
              !.manager.healthTracking = EmptyMap,
              !.manager.pingsInFlight = {},
              !.manager.closeAll.pc = "done",
              !.manager.closeAll.awaiting = {}]

\* part_002 lines 156-171: closeAll up to its await; every close() call runs
\* to its own await, with no listener of the manager left to notify.
RECURSIVE CloseClients(_, _)
CloseClients(ups, objs) ==
    IF objs = {} THEN ups
    ELSE LET o == CHOOSE x \in objs : TRUE
         IN CloseClients([ups EXCEPT ![o] = Close(Run(ups[o])).c], objs \ {o})

CloseAllBegin(w) ==
    LET objs == {w.manager.clients[n] : n \in DOMAIN w.manager.clients}
        w1 == [w EXCEPT !.manager.healthTimer = FALSE,
                        !.manager.unsubscribers = EmptyMap,
                        !.upstream = CloseClients(@, objs),
                        !.manager.closeAll =
                            [pc |-> "closing", names |-> DOMAIN w.manager.clients,
                             objs |-> objs,
                             awaiting |-> {o \in objs : w.upstream[o].client # 0}]]
    IN IF w1.manager.closeAll.awaiting = {} THEN CloseAllFinish(w1) ELSE w1

\* part_002 line 171: Promise.all resolves when the last awaited close() has.
ResumeCloseAll(w) ==
    IF /\ w.manager.closeAll.pc = "closing"
       /\ \A o \in w.manager.closeAll.awaiting : w.upstream[o].closePc = "idle"
    THEN CloseAllFinish(w)
    ELSE w

\* The client handler run r of object o has ended: its fields are stored, its
\* listeners have run, and an awaiting manager method goes on.
ClientDone(w, o, r) ==
    LET w1 == Deliver([w EXCEPT !.upstream[o] = r.c], o, r)
        before == w.upstream[o]
        settled == /\ before.connectPromise /\ ~r.c.connectPromise
                   /\ "manager" \in Range(before.waiters)
    IN ResumeCloseAll(IF settled /\ w.manager.op.kind = "connectAll"
                      THEN ConnectSettled(w1, w.probe[o].name, r.c.status = "connected")
                      ELSE ResumeManager(w1))

\* part_002 lines 270-283: one tick of the health timer. The clients that
\* are pinged: connected, and not in _pingsInFlight.
PingEligible(w) ==
    {n \in DOMAIN w.manager.clients :
        /\ w.upstream[w.manager.clients[n]].status = "connected"
        /\ n \notin w.manager.pingsInFlight}

RunHealthCheck(w) ==
    LET eligible == PingEligible(w)
        pinged == {w.manager.clients[n] : n \in eligible}
        tracking == w.manager.healthTracking
    IN [w EXCEPT
           !.manager.healthTracking =
               [n \in (DOMAIN tracking) \cup eligible |->
                   IF MapHas(tracking, n) THEN tracking[n]
                   ELSE [consecutiveFailures |-> 0, health |-> "unknown"]],
           !.manager.pingsInFlight = @ \cup eligible,
           !.probe = [o \in DOMAIN w.probe |->
                         IF o \in pinged THEN [w.probe[o] EXCEPT !.out = @ + 1]
                         ELSE w.probe[o]]]

\* part_002 line 313.
ReachedThreshold(failures) == failures >= UnhealthyThreshold

\* client.reconnect(): not in http-client.ts; taken to be a connect() call.
Reconnect(r) == Connect(r, "health")

\* part_002 lines 284-298: the ping of object o resolved.
PingResolved(w, o) ==
    LET name == w.probe[o].name
        w1 == [w EXCEPT !.manager.pingsInFlight = @ \ {name},
                        !.probe[o].out = @ - 1,
                        !.probe[o].streak = 0]
    IN IF ~MapHas(w.manager.healthTracking, name) THEN w1
       ELSE [w1 EXCEPT !.manager.healthTracking[name] =
                          [consecutiveFailures |-> 0, health |-> "healthy"]]

\* part_002 lines 299-331: the ping of object o rejected; does the handler
\* call client.reconnect()?
PingRejectReconnects(w, o) ==
    LET name == w.probe[o].name
    IN /\ MapHas(w.manager.healthTracking, name)
       /\ ReachedThreshold(w.manager.healthTracking[name].consecutiveFailures + 1)

PingRejected(w, o) ==
    LET name == w.probe[o].name
        w1 == [w EXCEPT !.manager.pingsInFlight = @ \ {name},
                        !.probe[o].out = @ - 1,
                        !.probe[o].streak =
                            IF PingRejectReconnects(w, o) \/ ReachedThreshold(@ + 1)
                            THEN 0 ELSE @ + 1]
    IN IF ~MapHas(w.manager.healthTracking, name) THEN w1
       ELSE IF ~PingRejectReconnects(w, o)
       THEN [w1 EXCEPT !.manager.healthTracking[name] =
                          [consecutiveFailures |-> @.consecutiveFailures + 1,
                           health |-> "unhealthy"]]
       ELSE LET w2 == [w1 EXCEPT !.manager.healthTracking[name] =
                          [consecutiveFailures |-> 0, health |-> "unknown"]]
            IN IF o \in DOMAIN w.upstream
               THEN ClientDone(w2, o, Reconnect(Run(w.upstream[o])))
               ELSE w2

(***************************************************************************)
(* Actions                                                                 *)
(***************************************************************************)
Objs == DOMAIN upstream

\* A client handler run r of object o takes effect.
Commit(o, r, op) ==
    /\ Becomes(Collect(ClientDone(World, o, r)))
    /\ lastOp' = [op |-> op, client |-> o, armed |-> upstream[o].reconnectTimer,
                  events |-> r.events, notified |-> r.notified]

\* connect() called from outside the client.
UserConnect(o) ==
    /\ upstream[o].epoch < MaxEpoch
    /\ Len(upstream[o].waiters) < MaxCallers
    /\ Commit(o, Connect(Run(upstream[o]), "user"),
              IF HasConnectPromise(upstream[o]) THEN "connect.coalesced" ELSE "connect")

\* The reconnect timer fires (lines 224-229).
TimerFire(o) ==
    /\ upstream[o].timers > 0
    /\ upstream[o].epoch < MaxEpoch
    /\ Commit(o, TimerCallback(Run(upstream[o])), "timer")

\* Line 79: old.close() has settled; its transport is gone.
CloseOldDone(o) ==
    /\ upstream[o].pc = "closeOld"
    /\ LET c == upstream[o]
           r == Run([c EXCEPT !.transports = MapDelete(@, c.old), !.old = 0])
       IN Commit(o, OpenTransport(r), "closeOldDone")

\* Line 109: client.connect(transport) resolved.
ConnectOk(o) ==
    /\ upstream[o].pc = "connect"
    /\ MapHas(upstream[o].transports, upstream[o].epoch)
    /\ LET c == upstream[o]
       IN Commit(o, Run([c EXCEPT !.transports[c.epoch] = "ready", !.pc = "listTools"]),
                 "connectOk")

\* Lines 109-111 and 117-120: client.connect or client.listTools rejected.
ConnectFail(o) ==
    /\ upstream[o].pc \in {"connect", "listTools"}
    /\ LET caught == CatchConnectError(Run(upstream[o]))
           r == Settle(caught, "rejected")
       IN /\ Becomes(Collect(ClientDone(World, o, r)))
          /\ lastOp' = [op |-> "connectFail", client |-> o, events |-> r.events,
                        notified |-> r.notified, caught |-> caught.c.status,
                        settled |-> [i \in DOMAIN upstream[o].waiters |-> "rejected"]]

\* Lines 111-116: client.listTools resolved.
ListToolsOk(o) ==
    /\ upstream[o].pc = "listTools"
    /\ MapHas(upstream[o].transports, upstream[o].epoch)
    /\ \E ts \in UpToolLists :
          LET r == Settle(Connected(Run(upstream[o]), ts), "resolved")
          IN /\ Becomes(Collect(ClientDone(World, o, r)))
             /\ lastOp' = [op |-> "connected", client |-> o, events |-> r.events,
                           notified |-> r.notified,
                           settled |-> [i \in DOMAIN upstream[o].waiters |-> "resolved"]]

\* close() called from outside the client.
UserClose(o) ==
    /\ ~(upstream[o].closePc = "closing" /\ upstream[o].client # 0)
    /\ Commit(o, Close(Run(upstream[o])),
              IF upstream[o].client # 0 THEN "close.begin" ELSE "close")

\* Lines 142-146: client.close() has settled; its transport is gone.
CloseDone(o) ==
    /\ upstream[o].closePc = "closing"
    /\ LET c == upstream[o]
           r == Run([c EXCEPT !.transports = MapDelete(@, c.closing),
                              !.closing = 0, !.closePc = "idle"])
       IN Commit(o, FinishClose(r), "close")

\* The transport made in epoch e closes (peer, network or process exit).
TransportClose(o) ==
    \E e \in DOMAIN upstream[o].transports :
        LET c == upstream[o]
            r == OnTransportClose(Run([c EXCEPT !.transports = MapDelete(@, e)]), e)
        IN /\ Becomes(Collect(ClientDone(World, o, r)))
           /\ lastOp' = [op |-> "onclose", client |-> o, myEpoch |-> e,
                         armed |-> c.reconnectTimer,
                         events |-> r.events, notified |-> r.notified]

\* The upstream served by the Client made in epoch e announces a new tool list.
ToolsChanged(o) ==
    \E e \in DOMAIN upstream[o].transports, ts \in UpToolLists :
        /\ upstream[o].transports[e] = "ready"
        /\ LET r == OnToolsChanged(Run(upstream[o]), e, ts)
           IN /\ Becomes(Collect(ClientDone(World, o, r)))
              /\ lastOp' = [op |-> "onChanged", client |-> o, myEpoch |-> e,
                            events |-> r.events, notified |-> r.notified]

ClientInit ==
    /\ registry = EmptyRegistry
    /\ upstream = [o \in {1} |-> NewClient]
    /\ manager = NewManager
    /\ probe = EmptyMap
    /\ bridge = EmptyMap
    /\ watcher = EmptyMap
    /\ search = EmptyMap
    /\ lastOp = NoOp

ClientNext ==
    \/ \E o \in Objs : UserConnect(o)
    \/ \E o \in Objs : UserClose(o)
    \/ \E o \in Objs : TimerFire(o)
    \/ \E o \in Objs : CloseOldDone(o)
    \/ \E o \in Objs : ConnectOk(o)
    \/ \E o \in Objs : ConnectFail(o)
    \/ \E o \in Objs : ListToolsOk(o)
    \/ \E o \in Objs : CloseDone(o)
    \/ \E o \in Objs : TransportClose(o)
    \/ \E o \in Objs : ToolsChanged(o)

ClientSpec == ClientInit /\ [][ClientNext]_vars

(***************************************************************************)
(* Manager actions                                                         *)
(***************************************************************************)
\* config-diff.ts lines 63-97 and 115-118: the servers part of diffConfigs;
\* every list is in the order of the keys of the config it is read from.
diffConfigs(oldConfig, newConfig) ==
    LET oldServers == resolveUpstreams(oldConfig)
        newServers == resolveUpstreams(newConfig)
        oldNames == DOMAIN oldServers
        newNames == DOMAIN newServers
    IN [added |-> InOrder(newNames \ oldNames),
        removed |-> InOrder(oldNames \ newNames),
        reconnect |-> InOrder({n \in newNames \cap oldNames :
                                  oldServers[n].conn # newServers[n].conn}),
        updated |-> InOrder({n \in newNames \cap oldNames :
                                /\ oldServers[n].conn = newServers[n].conn
                                /\ oldServers[n].category # newServers[n].category})]

\* part_002 lines 139-154: connectAll() is called, once, at boot.
ConnectAll ==
    /\ manager.op = Idle
    /\ manager.result = {}
    /\ LET names == InOrder(DOMAIN resolveUpstreams(manager.config))
           w == AddAll(World, names)
       IN Becomes(IF names = <<>>
                  THEN [w EXCEPT !.manager.result = {ConnectAllResult(0, {})}]
                  ELSE [w EXCEPT !.manager.op =
                           [kind |-> "connectAll", pending |-> Range(names),
                            failed |-> {}, total |-> Len(names)]])
    /\ lastOp' = [op |-> "connectAll", names |-> DOMAIN manager.config]

\* What a manager booted fresh with config holds once connectAll has made its
\* clients: a client per upstream name, made from the name's server config
\* (its connection fields), and the category of every name that has one.
BootedFrom(w, config) ==
    LET servers == resolveUpstreams(config)
        categorised == {n \in DOMAIN servers : servers[n].category # NoCategory}
    IN /\ DOMAIN w.manager.clients = DOMAIN servers
       /\ \A n \in DOMAIN w.manager.clients :
              w.probe[w.manager.clients[n]].config.conn = servers[n].conn
       /\ w.registry.sourceCategories = [n \in categorised |-> servers[n].category]

\* index.ts lines 96-97 and part_002 lines 182-224: the reload handler diffs
\* the running config against newConfig and calls applyConfigDiff. The op
\* record notes whether the system was as booted from the running config.
ApplyConfigDiff(newConfig) ==
    LET diff == diffConfigs(manager.config, newConfig)
    IN /\ manager.op = Idle
       /\ manager.result # {}
       /\ manager.closeAll.pc = "idle"
       /\ manager.created + Len(diff.reconnect) + Len(diff.added) <= MaxClients
       /\ Becomes(RunApply([World EXCEPT !.manager.op =
                     [kind |-> "apply", stage |-> "run", newConfig |-> newConfig,
                      asBooted |-> BootedFrom(World, manager.config),
                      removed |-> diff.removed, reconnect |-> diff.reconnect,
                      added |-> diff.added, updated |-> diff.updated]]))
       /\ lastOp' = [op |-> "applyConfigDiff", oldConfig |-> manager.config,
                     newConfig |-> newConfig, diff |-> diff]

\* part_002 lines 249-261, with a positive healthCheckInterval.
StartHealthChecks ==
    /\ ~manager.healthTimer
    /\ manager.closeAll.pc = "idle"
    /\ manager' = [manager EXCEPT !.healthTimer = TRUE]
    /\ lastOp' = [op |-> "startHealthChecks"]
    /\ UNCHANGED <<registry, upstream, probe, bridge, watcher, search>>

\* part_002 lines 156-180: closeAll() is called (index.ts lines 175-183, on
\* SIGINT or SIGTERM, once), whatever the manager is doing.
CloseAll ==
    /\ manager.closeAll.pc = "idle"
    /\ manager.created > 0
    /\ \A n \in DOMAIN manager.clients :
           ~(/\ upstream[manager.clients[n]].closePc = "closing"
             /\ upstream[manager.clients[n]].client # 0)
    /\ Becomes(Collect(CloseAllBegin(World)))
    /\ lastOp' = [op |-> "closeAll", names |-> DOMAIN manager.clients]

\* part_002 lines 263-268.
StopHealthChecks ==
    /\ manager.healthTimer
    /\ manager' = [manager EXCEPT !.healthTimer = FALSE]
    /\ lastOp' = [op |-> "stopHealthChecks"]
    /\ UNCHANGED <<registry, upstream, probe, bridge, watcher, search>>

\* part_002 lines 258-260: the health timer fires.
HealthTick ==
    /\ manager.healthTimer
    /\ Becomes(RunHealthCheck(World))
    /\ lastOp' = [op |-> "tick",
                  pinged |-> {manager.clients[n] : n \in PingEligible(World)},
                  outstanding |-> {o \in DOMAIN probe : probe[o].out > 0}]

\* part_002 lines 284-298: a ping resolves; the round trip needs a client
\* that still has an open session.
PingOk(o) ==
    /\ probe[o].out > 0
    /\ o \in Objs
    /\ \E e \in DOMAIN upstream[o].transports : upstream[o].transports[e] = "ready"
    /\ Becomes(Collect(PingResolved(World, o)))
    /\ lastOp' = [op |-> "ping.ok", client |-> o]

\* part_002 lines 299-331: a ping rejects (timeout or transport error).
PingFail(o) ==
    /\ probe[o].out > 0
    /\ (PingRejectReconnects(World, o) /\ o \in Objs)
          => (/\ upstream[o].epoch < MaxEpoch
              /\ Len(upstream[o].waiters) < MaxCallers)
    /\ Becomes(Collect(PingRejected(World, o)))
    /\ lastOp' = [op |-> "ping.fail", client |-> o,
                  reconnect |-> PingRejectReconnects(World, o),
                  streak |-> probe[o].streak + 1,
                  current |-> /\ MapHas(manager.clients, probe[o].name)
                              /\ manager.clients[probe[o].name] = o,
                  counter |-> IF MapHas(manager'.healthTracking, probe[o].name)
                              THEN manager'.healthTracking[probe[o].name].consecutiveFailures
                              ELSE 0]

\* The configurations of the health-loop runs: one upstream without category,
\* whose connection fields a reload changes.
HealthConfigs == [{<<"a">>} -> [conn : Conns, category : {NoCategory}]]

HealthBootConfigs == {c \in HealthConfigs : c[<<"a">>].conn = "u1"}

\* part_002 lines 56-70: a manager constructed with one of configs.
ManagerInitIn(configs) ==
    /\ registry = EmptyRegistry
    /\ upstream = EmptyMap
    /\ manager \in {[NewManager EXCEPT !.config = c] : c \in configs}
    /\ probe = EmptyMap
    /\ bridge = EmptyMap
    /\ watcher = EmptyMap
    /\ search = EmptyMap
    /\ lastOp = NoOp

ManagerInit == ManagerInitIn(HealthBootConfigs)

ManagerNext ==
    \/ ConnectAll
    \/ \E c \in HealthConfigs : ApplyConfigDiff(c)
    \/ StartHealthChecks
    \/ StopHealthChecks
    \/ HealthTick
    \/ \E o \in DOMAIN probe : PingOk(o)
    \/ \E o \in DOMAIN probe : PingFail(o)
    \/ \E o \in Objs : TimerFire(o)
    \/ \E o \in Objs : CloseOldDone(o)
    \/ \E o \in Objs : ConnectOk(o)
    \/ \E o \in Objs : ConnectFail(o)
    \/ \E o \in Objs : ListToolsOk(o)
    \/ \E o \in Objs : CloseDone(o)
    \/ \E o \in Objs : TransportClose(o)
    \/ \E o \in Objs : ToolsChanged(o)

ManagerSpec == ManagerInit /\ [][ManagerNext]_vars

\* The bridge from boot to shutdown: health checks run, the configuration may
\* be reloaded, and closeAll() is called once at any moment.
ShutdownNext ==
    \/ ConnectAll
    \/ \E c \in HealthConfigs : ApplyConfigDiff(c)
    \/ StartHealthChecks
    \/ CloseAll
    \/ HealthTick
    \/ \E o \in DOMAIN probe : PingOk(o)
    \/ \E o \in DOMAIN probe : PingFail(o)
    \/ \E o \in Objs : TimerFire(o)
    \/ \E o \in Objs : CloseOldDone(o)
    \/ \E o \in Objs : ConnectOk(o)
    \/ \E o \in Objs : ConnectFail(o)
    \/ \E o \in Objs : ListToolsOk(o)
    \/ \E o \in Objs : CloseDone(o)
    \/ \E o \in Objs : TransportClose(o)

ShutdownSpec == ManagerInit /\ [][ShutdownNext]_vars

\* Boot with up to two upstreams: connectAll() and what the transports do.
BootConfigs == ConfigsOver({<<"a">>, <<"b">>}, [conn : {"u1"}, category : {NoCategory}])

BootInit == ManagerInitIn(BootConfigs)

BootNext ==
    \/ ConnectAll
    \/ \E o \in Objs : ConnectOk(o)
    \/ \E o \in Objs : ConnectFail(o)
    \/ \E o \in Objs : ListToolsOk(o)
    \/ \E o \in Objs : TransportClose(o)
    \/ \E o \in Objs : TimerFire(o)

BootSpec == BootInit /\ [][BootNext]_vars

(***************************************************************************)
(* Reloads: one upstream whose server config a reload adds, removes,       *)
(* reconnects or updates; health checks disabled (healthCheckInterval 0).  *)
(***************************************************************************)
ReloadConfigs == ConfigsOver({<<"a">>}, ServerConfig)

ReloadInit == ManagerInitIn(ReloadConfigs)

ReloadNext ==
    \/ ConnectAll
    \/ \E c \in ReloadConfigs : ApplyConfigDiff(c)
    \/ \E o \in Objs : TimerFire(o)
    \/ \E o \in Objs : ConnectOk(o)
    \/ \E o \in Objs : ConnectFail(o)
    \/ \E o \in Objs : ListToolsOk(o)
    \/ \E o \in Objs : CloseDone(o)
    \/ \E o \in Objs : TransportClose(o)
    \/ \E o \in Objs : ToolsChanged(o)

ReloadSpec == ReloadInit /\ [][ReloadNext]_vars

(***************************************************************************)
(* Claims about the upstream client (checked under ClientSpec)             *)
(***************************************************************************)

\* C4: epoch soundness. A tool-list-changed or transport-close callback that
\* was registered in an epoch older than the client's current one changes
\* neither the client's tools nor its status and reaches no observer.
C4_EpochSoundness ==
    [][\A o \in Objs :
          (/\ lastOp'.op \in {"onChanged", "onclose"}
           /\ lastOp'.client = o
           /\ lastOp'.myEpoch < upstream[o].epoch)
          => (/\ upstream'[o].tools = upstream[o].tools
              /\ upstream'[o].status = upstream[o].status
              /\ lastOp'.events = <<>>
              /\ lastOp'.notified = <<>>)]_vars

\* Witness of C4: a tool-list-changed callback of an old epoch has just run
\* on a client that is connected.
C4_Witness ==
    /\ lastOp.op = "onChanged"
    /\ lastOp.myEpoch < upstream[lastOp.client].epoch
    /\ upstream[lastOp.client].status = "connected"

\* C5: connect coalescing. A connect() call made while a connect promise is
\* pending starts no new attempt (no new epoch, no transport-factory call)
\* and joins the callers of the pending one; every attempt calls the
\* transport factory exactly once; all callers of one attempt settle with
\* the same outcome.
C5_ConnectCoalescing ==
    [][\A o \in Objs :
          /\ (/\ lastOp'.op \in {"connect", "connect.coalesced"}
              /\ lastOp'.client = o
              /\ upstream[o].connectPromise)
             => (/\ upstream'[o].factoryCalls = upstream[o].factoryCalls
                 /\ upstream'[o].epoch = upstream[o].epoch
                 /\ Len(upstream'[o].waiters) = Len(upstream[o].waiters) + 1)
          /\ upstream'[o].factoryCalls =
                 upstream'[o].epoch - (IF upstream'[o].pc = "closeOld" THEN 1 ELSE 0)
          /\ (lastOp'.op \in {"connected", "connectFail"} /\ lastOp'.client = o)
             => (/\ Len(lastOp'.settled) = Len(upstream[o].waiters)
                 /\ \A i, j \in DOMAIN lastOp'.settled :
                        lastOp'.settled[i] = lastOp'.settled[j])]_vars

\* Witness of C5: two or more concurrent connect() calls have settled on the
\* first attempt of a client, with one transport-factory call.
C5_Witness ==
    /\ lastOp.op = "connected"
    /\ Len(lastOp.settled) >= 2
    /\ upstream[lastOp.client].factoryCalls = 1

\* C6: from the moment close() returns until the next explicit connect(),
\* the client's status is disconnected, its tool list is empty, no reconnect
\* timer is armed and no connect attempt is started or completed.
C6_CloseIsFinal ==
    \A o \in Objs :
        upstream[o].closeReturned =>
            /\ upstream[o].status = "disconnected"
            /\ upstream[o].tools = <<>>
            /\ ~upstream[o].reconnectTimer
            /\ (lastOp.client = o => lastOp.op \notin {"timer", "connected"})

\* C7: a client that has tried to connect and has not been closed never
\* rests in status disconnected with no retry pending: a reconnect timer is
\* armed or a connect attempt is in flight.
C7_AlwaysRetried ==
    \A o \in Objs :
        (/\ upstream[o].epoch > 0
         /\ ~upstream[o].closed
         /\ upstream[o].closePc = "idle"
         /\ upstream[o].status = "disconnected")
        => (upstream[o].reconnectTimer \/ upstream[o].connectPromise)

\* C8: the client is in status connecting only while a connect attempt is in
\* flight, and the catch block of a failed attempt leaves it disconnected.
C8_NeverStuckConnecting ==
    /\ \A o \in Objs :
          upstream[o].status = "connecting" =>
              (upstream[o].pc \in {"connect", "listTools"} /\ upstream[o].connectPromise)
    /\ lastOp.op = "connectFail" =>
          (/\ lastOp.caught = "disconnected"
           /\ upstream[lastOp.client].status \in {"disconnected", "error"})

\* Witness of C8: a connect attempt has just failed and the client is
\* disconnected with no attempt in flight.
C8_Witness ==
    /\ lastOp.op = "connectFail"
    /\ upstream[lastOp.client].status = "disconnected"
    /\ upstream[lastOp.client].pc = "idle"

\* C17 (error is terminal): the status becomes error only when the reconnect
\* attempts have reached the maximum, and then no timer is armed and no
\* attempt is in flight; from status error, every step other than a connect()
\* or close() called from outside changes the status at no moment, arms no
\* reconnect timer and starts no connect attempt.
C17_ErrorIsTerminal ==
    [][\A o \in DOMAIN upstream \cap DOMAIN upstream' :
          /\ (upstream[o].status # "error" /\ upstream'[o].status = "error") =>
                 /\ upstream'[o].reconnectAttempt >= MaxReconnectAttempts
                 /\ ~upstream'[o].reconnectTimer
                 /\ ~upstream'[o].connectPromise
          /\ (/\ upstream[o].status = "error"
              /\ lastOp'.client = o
              /\ lastOp'.op \notin {"connect", "connect.coalesced", "close", "close.begin"}) =>
                 /\ upstream'[o].status = "error"
                 /\ lastOp'.events = <<>>
                 /\ ~upstream'[o].reconnectTimer
                 /\ ~upstream'[o].connectPromise
                 /\ upstream'[o].epoch = upstream[o].epoch]_vars

C35_OneReconnectTimer ==
    \A o \in Objs :
        /\ upstream[o].timers <= 1
        /\ upstream[o].timers = 1 <=> upstream[o].reconnectTimer

\* C35 witness: the transport of the current epoch closed while a reconnect
\* timer was pending, so _scheduleReconnect was called with the timer armed,
\* and one timer is pending afterwards.
C35_Witness ==
    /\ lastOp.op = "onclose"
    /\ lastOp.armed
    /\ lastOp.myEpoch = upstream[lastOp.client].epoch
    /\ ~upstream[lastOp.client].closed
    /\ upstream[lastOp.client].timers = 1

\* C36: a close() call, and a connect() call from outside the client, leave
\* no reconnect timer pending: a timer armed before the call is cancelled by
\* it, so it can neither fire nor start a connect attempt afterwards.
C36_CallCancelsTimer ==
    [][\A o \in Objs :
          (/\ lastOp'.op \in {"connect", "connect.coalesced", "close.begin", "close"}
           /\ lastOp'.client = o
           /\ lastOp'.op = "close" => upstream'[o].closePc = upstream[o].closePc) =>
              /\ upstream'[o].timers = 0
              /\ ~upstream'[o].reconnectTimer]_vars

\* C36 witness: connect() was called from outside while a reconnect timer
\* was armed, and began a connect attempt.
C36_Witness ==
    /\ lastOp.op = "connect"
    /\ lastOp.armed
    /\ upstream[lastOp.client].connectPromise
    /\ upstream[lastOp.client].timers = 0

\* C40: whenever a client's reconnect timer is armed, the client has not
\* been closed, has no connect attempt in flight, and its status is
\* disconnected.
C40_ArmedTimerState ==
    \A o \in Objs :
        upstream[o].reconnectTimer =>
            /\ ~upstream[o].closed
            /\ ~upstream[o].connectPromise
            /\ upstream[o].pc = "idle"
            /\ upstream[o].status = "disconnected"

\* C40 witness: the connect attempt started by a reconnect timer was
\* rejected and its catch armed the next timer.
C40_Witness ==
    /\ lastOp.op = "connectFail"
    /\ upstream[lastOp.client].reconnectTimer
    /\ upstream[lastOp.client].status = "disconnected"
    /\ ~upstream[lastOp.client].closed

(***************************************************************************)
(* Claims about the health loop                                            *)
(***************************************************************************)
\* C9 (health-loop reentrancy): a health tick never starts a ping for a
\* client that still has a ping outstanding, whatever ticks, ping
\* completions and manager operations came before.
C9_HealthLoopReentrancy ==
    [][lastOp'.op = "tick" => lastOp'.pinged \cap lastOp'.outstanding = {}]_vars

\* C10 (reconnect on threshold): a failed ping invokes client.reconnect()
\* only when it is the client's UnhealthyThreshold-th failure in a row, it
\* does so whenever the client is the one the manager holds under its name,
\* and the failure counter is zero after it.
C10_ReconnectOnThreshold ==
    [][lastOp'.op = "ping.fail" =>
          /\ lastOp'.reconnect => lastOp'.streak = UnhealthyThreshold
          /\ (lastOp'.streak = UnhealthyThreshold /\ lastOp'.current)
                 => (lastOp'.reconnect /\ lastOp'.counter = 0)]_vars

\* C32 (reload phases): applyConfigDiff works on its reconnect entries only
\* when no removed entry is left and on its added entries only when no
\* reconnect entry is left; and when it replaces the client of a name, the
\* registry holds no tool of the name and the old client is closed for
\* good: close() was called on it and has returned, and it has no connect
\* attempt in flight that could still make it connected (two live clients
\* of one name).
C32_ReloadPhases ==
    [][/\ manager'.op.kind = "apply" =>
             /\ manager'.op.stage \in {"reconnect.close", "reconnect.connect"}
                   => manager'.op.removed = <<>>
             /\ manager'.op.stage = "added.connect"
                   => (manager'.op.removed = <<>> /\ manager'.op.reconnect = <<>>)
       /\ \A n \in DOMAIN manager.clients :
             (MapHas(manager'.clients, n) /\ manager'.clients[n] # manager.clients[n]) =>
                /\ \A t \in DOMAIN registry'.tools : registry'.tools[t].source # n
                /\ manager.clients[n] \notin DOMAIN upstream'
                /\ upstream[manager.clients[n]].closePc = "closing"
                      \/ upstream[manager.clients[n]].client = 0
                /\ ~upstream[manager.clients[n]].connectPromise]_vars

\* C30 (stale ping outcomes): when a ping settles whose client is no longer
\* the one the manager holds under its name (applyConfigDiff removed or
\* replaced it), the health tracking and the pings-in-flight markers stay as
\* they were, and reconnect() is not invoked on that client.
C30_StalePingInert ==
    [][(/\ lastOp'.op \in {"ping.ok", "ping.fail"}
        /\ ~(/\ MapHas(manager.clients, probe[lastOp'.client].name)
             /\ manager.clients[probe[lastOp'.client].name] = lastOp'.client)) =>
          /\ manager'.healthTracking = manager.healthTracking
          /\ manager'.pingsInFlight = manager.pingsInFlight
          /\ lastOp'.op = "ping.fail" => ~lastOp'.reconnect]_vars

(***************************************************************************)
(* Policy Engine (src/src/policy/policy-engine.ts) and the tools/call      *)
(* handler of the Bridge Server (src/src/server/bridge-server.ts)          *)
(***************************************************************************)
Undefined == "undefined"
ToolPolicy == {"always", "never", "prompt"}

\* ServerBridgeConfig: {toolPolicy?, tools?: {toolName -> policy}}.
ServerBridgeConfig ==
    [toolPolicy : ToolPolicy \cup {Undefined},
     tools : UNION {[S -> ToolPolicy] : S \in SUBSET UpNames}]

\* policy-engine.ts lines 19-25: the engines the bridge is started with, for
\* a config whose only upstream is "a".
PolicyEngines ==
    [globalPolicy : ToolPolicy,
     serverConfigs : UNION {[S -> ServerBridgeConfig] : S \in SUBSET {<<"a">>}}]

\* policy-engine.ts lines 27-37.
resolvePolicy(pe, source, toolName) ==
    IF MapHas(pe.serverConfigs, source)
    THEN LET serverConfig == pe.serverConfigs[source]
         IN IF MapHas(serverConfig.tools, toolName) THEN serverConfig.tools[toolName]
            ELSE IF serverConfig.toolPolicy # Undefined THEN serverConfig.toolPolicy
            ELSE pe.globalPolicy
    ELSE pe.globalPolicy

McpError(code, message) == [mcp |-> TRUE, code |-> code, message |-> message]
PlainError(message) == [mcp |-> FALSE, code |-> "none", message |-> message]

\* policy-engine.ts line 49 with the test dropped (a mutant of PolicyForbids).
PolicyForbidsNothing(policy) == FALSE

\* policy-engine.ts line 49.
PolicyForbids(policy) == policy = "never"

\* policy-engine.ts lines 45-58: enforce up to its return, its throw or its
\* await of elicitFn.
EnforceBegin(pe, source, toolName) ==
    LET policy == resolvePolicy(pe, source, toolName)
    IN IF policy = "always" THEN [policy |-> policy, outcome |-> "returned"]
       ELSE IF PolicyForbids(policy)
       THEN [policy |-> policy, outcome |-> "threw",
             error |-> McpError("InvalidRequest", "is disabled by policy")]
       ELSE [policy |-> policy, outcome |-> "elicit"]

\* What elicitFn can settle with: a result of one of the three actions, a
\* plain Error, or an McpError of the request layer (the downstream client
\* answered with a JSON-RPC error, or the request timed out).
ElicitOutcomes ==
    {[threw |-> FALSE, action |-> a] : a \in {"accept", "decline", "cancel"}}
    \cup {[threw |-> TRUE, action |-> "none", error |-> e] :
            e \in {PlainError("elicitation failed"),
                    McpError("MethodNotFound", "Method not found"),
                    McpError("RequestTimeout", "Request timed out")}}

\* policy-engine.ts line 63.
ElicitAccepted(result) == result.action = "accept"

\* policy-engine.ts lines 57-76: enforce after elicitFn has settled.
EnforceElicited(settled) ==
    IF ~settled.threw
    THEN IF ElicitAccepted(settled)
         THEN [outcome |-> "returned"]
         ELSE [outcome |-> "threw",
               error |-> McpError("InvalidRequest", "was declined by user")]
    ELSE IF settled.error.mcp
    THEN [outcome |-> "threw", error |-> settled.error]
    ELSE [outcome |-> "threw",
          error |-> McpError("InvalidRequest",
                     "requires confirmation but the client does not support elicitation")]

\* http-client.ts lines 251-265 (tool-namespacing.ts): split on the first "__";
\* found is FALSE where the code returns undefined.
parseNamespacedName(name) ==
    LET hits == {i \in 1..(Len(name) - 1) :
                    SubSeq(name, i, i + 1) = NAMESPACE_SEPARATOR}
    IN IF hits = {} THEN [found |-> FALSE]
       ELSE LET idx == CHOOSE i \in hits : \A j \in hits : i <= j
            IN [found |-> TRUE, source |-> SubSeq(name, 1, idx - 1),
                toolName |-> SubSeq(name, idx + Len(NAMESPACE_SEPARATOR), Len(name))]

\* bridge-server.ts lines 186-213: routeToUpstream after enforce returned, up
\* to the callTool it awaits or the error it throws.
RouteAfterEnforce(w, source) ==
    IF ~MapHas(w.manager.clients, source)
    THEN [invoke |-> FALSE, error |-> McpError("InternalError", "Upstream server not found")]
    ELSE IF w.upstream[w.manager.clients[source]].status # "connected"
    THEN [invoke |-> FALSE, error |-> McpError("InternalError", "is not connected")]
    ELSE [invoke |-> TRUE, client |-> w.manager.clients[source]]

\* The names tools/call requests carry: a tool of upstream a, a tool of an
\* upstream that does not exist, and a name with no separator.
CallNames ==
    {namespaceTool(<<"a">>, [name |-> <<"t">>]).name,
     namespaceTool(<<"b">>, [name |-> <<"t">>]).name,
     <<"t">>}

CallIds == 1..MaxCalls

\* bridge-server.ts lines 125 and 151: the arguments of a tools/call request
\* (args is optional; NoArguments is undefined).
NoArguments == "undefined"
CallArguments == {NoArguments, "args1"}

\* What an upstream's callTool resolves with: a result, or a result with
\* isError set.
CallResults == {"content", "isError"}

\* The handler has answered request id.
Respond(id, response, steps) ==
    /\ bridge' = [bridge EXCEPT !.calls = MapDelete(@, id)]
    /\ lastOp' = [op |-> "tools/call", id |-> id, response |-> response] @@ steps

\* bridge-server.ts lines 173-213 from the return of enforce on.
Routed(id, call, steps) ==
    LET route == RouteAfterEnforce(World, call.source)
    IN IF route.invoke
       THEN /\ bridge' = [bridge EXCEPT !.calls =
                             MapSet(@, id, [call EXCEPT
                                 !.pc = "callTool",
                                 !.invoked = Append(@,
                                     [client |-> route.client,
                                      toolName |-> call.toolName,
                                      arguments |-> call.arguments])])]
            /\ lastOp' = [op |-> "callTool", id |-> id, client |-> route.client,
                          toolName |-> call.toolName,
                          arguments |-> call.arguments] @@ steps
       ELSE Respond(id, [kind |-> "error", error |-> route.error], steps)

\* bridge-server.ts lines 82-152 and 169-185: a tools/call request for name
\* with arguments args arrives, through run_tool (via = "run_tool") or
\* directly. invoked lists the callTool invocations made for the request.
CallToolRequest(name, via, args) ==
    \E id \in CallIds \ DOMAIN bridge.calls :
       /\ UNCHANGED <<registry, upstream, manager, probe, watcher, search>>
       /\ LET parsed == parseNamespacedName(name)
              none == [name |-> name, policy |-> "none", enforce |-> "none",
                       action |-> "none"]
          IN IF via = "direct" /\ ~MapHas(registry.tools, name)
             THEN Respond(id, [kind |-> "error",
                               error |-> McpError("InvalidParams", "Unknown tool")], none)
             ELSE IF ~parsed.found
             THEN Respond(id, [kind |-> "error",
                               error |-> McpError("InvalidParams", "Invalid tool name")], none)
             ELSE LET e == EnforceBegin(bridge.policyEngine, parsed.source, parsed.toolName)
                      call == [name |-> name, via |-> via, source |-> parsed.source,
                               toolName |-> parsed.toolName, policy |-> e.policy,
                               arguments |-> args, invoked |-> <<>>,
                               pc |-> "elicit"]
                      steps == [name |-> name, policy |-> e.policy,
                                enforce |-> e.outcome, action |-> "none"]
                  IN IF e.outcome = "threw"
                     THEN Respond(id, [kind |-> "error", error |-> e.error], steps)
                     ELSE IF e.outcome = "elicit"
                     THEN /\ bridge' = [bridge EXCEPT !.calls = MapSet(@, id, call)]
                          /\ lastOp' = [op |-> "elicit", id |-> id] @@ steps
                     ELSE Routed(id, call, steps)

\* policy-engine.ts lines 58-76 and bridge-server.ts lines 183-213: elicitFn
\* settles for request id.
ElicitSettle(id) ==
    /\ bridge.calls[id].pc = "elicit"
    /\ UNCHANGED <<registry, upstream, manager, probe, watcher, search>>
    /\ \E settled \in ElicitOutcomes :
          LET call == bridge.calls[id]
              e == EnforceElicited(settled)
              steps == [name |-> call.name, policy |-> call.policy,
                        enforce |-> e.outcome, action |-> settled.action,
                        elicitThrew |-> settled.threw]
          IN IF e.outcome = "threw"
             THEN Respond(id, [kind |-> "error", error |-> e.error], steps)
             ELSE Routed(id, call, steps)

\* What client.callTool settles with: it resolves with a result or rejects.
CallToolOutcomes ==
    {[threw |-> FALSE, result |-> r] : r \in CallResults}
    \cup {[threw |-> TRUE, result |-> "none"]}

\* bridge-server.ts lines 209-220: client.callTool settles for request id;
\* the handler returns what it resolved with, or throws the wrapped error.
CallToolSettle(id) ==
    /\ bridge.calls[id].pc = "callTool"
    /\ UNCHANGED <<registry, upstream, manager, probe, watcher, search>>
    /\ \E settled \in CallToolOutcomes :
          Respond(id, IF ~settled.threw
                      THEN [kind |-> "result", result |-> settled.result]
                      ELSE [kind |-> "error",
                            error |-> McpError("InternalError", "Upstream server error")],
                  [name |-> bridge.calls[id].name, policy |-> bridge.calls[id].policy,
                   enforce |-> "returned", action |-> "none",
                   arguments |-> bridge.calls[id].arguments,
                   invoked |-> bridge.calls[id].invoked,
                   settled |-> settled])

\* One upstream "a"; the engine is built from the config's policies.
BridgeConfigs == [{<<"a">>} -> [conn : {"u1"}, category : {NoCategory}]]

BridgeInit ==
    /\ registry = EmptyRegistry
    /\ upstream = EmptyMap
    /\ manager \in {[NewManager EXCEPT !.config = c] : c \in BridgeConfigs}
    /\ probe = EmptyMap
    /\ bridge \in {[policyEngine |-> pe, calls |-> EmptyMap] : pe \in PolicyEngines}
    /\ watcher = EmptyMap
    /\ search = EmptyMap
    /\ lastOp = NoOp

BridgeNext ==
    \/ ConnectAll
    \/ \E o \in Objs : ConnectOk(o)
    \/ \E o \in Objs : ConnectFail(o)
    \/ \E o \in Objs : ListToolsOk(o)
    \/ \E o \in Objs : TransportClose(o)
    \/ \E o \in Objs : TimerFire(o)
    \/ \E name \in CallNames, via \in {"run_tool", "direct"}, args \in CallArguments :
          CallToolRequest(name, via, args)
    \/ \E id \in DOMAIN bridge.calls : ElicitSettle(id)
    \/ \E id \in DOMAIN bridge.calls : CallToolSettle(id)

BridgeSpec == BridgeInit /\ [][BridgeNext]_vars

\* Two upstreams whose names are "a" and "a__b" (schema.ts line 60: a server
\* name is any string key of mcpServers); no policy is configured.
RouteConfigs ==
    [{<<"a">>, <<"a", "_", "_", "b">>} -> [conn : {"u1"}, category : {NoCategory}]]

\* A registered tool of each of the two upstreams.
RouteCallNames ==
    {namespaceTool(<<"a">>, [name |-> <<"t">>]).name,
     namespaceTool(<<"a", "_", "_", "b">>, [name |-> <<"t">>]).name}

RouteInit ==
    /\ registry = EmptyRegistry
    /\ upstream = EmptyMap
    /\ manager \in {[NewManager EXCEPT !.config = c] : c \in RouteConfigs}
    /\ probe = EmptyMap
    /\ bridge = [policyEngine |-> [globalPolicy |-> "always",
                                   serverConfigs |-> EmptyMap],
                 calls |-> EmptyMap]
    /\ watcher = EmptyMap
    /\ search = EmptyMap
    /\ lastOp = NoOp

RouteNext ==
    \/ ConnectAll
    \/ \E o \in Objs : ConnectOk(o)
    \/ \E o \in Objs : ListToolsOk(o)
    \/ \E o \in Objs : TransportClose(o)
    \/ \E name \in RouteCallNames, via \in {"run_tool", "direct"}, args \in CallArguments :
          CallToolRequest(name, via, args)
    \/ \E id \in DOMAIN bridge.calls : CallToolSettle(id)

RouteSpec == RouteInit /\ [][RouteNext]_vars

\* Server names and tool names are strings (schema.ts line 60; a Tool's name
\* in the SDK): here the non-empty ones of at most MaxNameLen characters over
\* a letter and the underscore.
NameChars == {"a", "_"}
NameStrings == UNION {[1..k -> NameChars] : k \in 1..MaxNameLen}

\* Configurations of two upstreams of distinct names.
NamespaceConfigs ==
    UNION {[{p[1], p[2]} -> [conn : {"u1"}, category : {NoCategory}]] :
              p \in {q \in NameStrings \X NameStrings : q[1] # q[2]}}

\* part_002 lines 90-96: the client of upstream s announces the one tool t,
\* and the manager's listener namespaces and registers it.
RegisterTools(s, t) ==
    /\ UNCHANGED <<upstream, manager, probe, bridge, watcher, search>>
    /\ registry' = ToolsListener(registry, s, <<<<[name |-> t, ver |-> 1]>>>>)
    /\ lastOp' = [op |-> "onToolsChanged", source |-> s, toolName |-> t,
                  name |-> namespaceTool(s, [name |-> t, ver |-> 1]).name]

\* http-client.ts lines 247-264: the namespaced name of tool t of upstream s
\* is parsed (bridge-server.ts line 173).
ParseNamespaced(s, t) ==
    /\ UNCHANGED <<registry, upstream, manager, probe, bridge, watcher, search>>
    /\ LET name == namespaceTool(s, [name |-> t, ver |-> 1]).name
       IN lastOp' = [op |-> "parseNamespacedName", source |-> s, toolName |-> t,
                     name |-> name, parsed |-> parseNamespacedName(name)]

NamespaceInit ==
    /\ registry = EmptyRegistry
    /\ upstream = EmptyMap
    /\ manager \in {[NewManager EXCEPT !.config = c] : c \in NamespaceConfigs}
    /\ probe = EmptyMap
    /\ bridge = EmptyMap
    /\ watcher = EmptyMap
    /\ search = EmptyMap
    /\ lastOp = NoOp

NamespaceNext ==
    \/ \E s \in DOMAIN manager.config, t \in NameStrings : RegisterTools(s, t)
    \/ \E s \in DOMAIN manager.config, t \in NameStrings : ParseNamespaced(s, t)

NamespaceSpec == NamespaceInit /\ [][NamespaceNext]_vars

(***************************************************************************)
(* Config Watcher (src/unnamed/part_003) and loadConfig                    *)
(* (src/src/config/loader.ts)                                              *)
(*                                                                         *)
(* The file system is the environment: it reports events for the config    *)
(* file or for another file of the directory, and the file's content at    *)
(* the moment loadConfig reads it is whatever was written last.  The       *)
(* debounce window is the time from an event to the firing of the timer    *)
(* it armed.                                                               *)
(***************************************************************************)
ServerKeys == {"a", "b"}

\* The orders in which the file can list its servers.
KeyOrders == {<<>>, <<"a">>, <<"a", "b">>, <<"b", "a">>}

\* What the config file can hold: a valid document or one loadConfig rejects.
FileContents ==
    [valid : {TRUE}, keys : KeyOrders] \cup {[valid |-> FALSE, keys |-> <<>>]}

\* loader.ts lines 46-79: the parsed configuration keeps the file's key order.
loadConfig(file) ==
    IF file.valid THEN [ok |-> TRUE, config |-> [mcpServers |-> file.keys]]
    ELSE [ok |-> FALSE, config |-> [mcpServers |-> <<>>]]

\* JSON.stringify: the text lists the keys in the object's own order.
RECURSIVE JoinKeys(_)
JoinKeys(keys) ==
    IF keys = <<>> THEN <<>>
    ELSE IF Len(keys) = 1 THEN <<Head(keys)>>
    ELSE <<Head(keys), ",">> \o JoinKeys(Tail(keys))

JSONstringify(config) == <<"{">> \o JoinKeys(config.mcpServers) \o <<"}">>

NoConfig == [mcpServers |-> <<>>]

\* part_003 lines 36-65: the watcher after start(listener, initialConfig), as
\* index.ts line 158 calls it; file is the content of the config file.  The
\* fields from events on are counters the code does not have: file events
\* received, events of the open window, windows ended, _reload calls made by
\* the timer, loadConfig calls, listener calls, the config in effect,
\* whether a load has been rejected and whether the listener has thrown, and
\* the _reload calls that found a reload in flight since the last load began.
\* pc, json and loaded are the position and the locals of a reload in
\* flight; extra holds those of the reloads in flight beside it.
StartedWatcher(initialConfig, file) ==
    [watching |-> TRUE, timers |-> 0, listener |-> TRUE,
     lastJson |-> JSONstringify(initialConfig),
     reloading |-> FALSE, pendingReload |-> FALSE,
     pc |-> "idle", json |-> <<>>, loaded |-> NoConfig, file |-> file,
     events |-> 0, burst |-> 0, windows |-> 0, reloadCalls |-> 0,
     loads |-> 0, invoked |-> 0, applied |-> initialConfig,
     rejected |-> FALSE, threw |-> FALSE, deferred |-> 0, extra |-> <<>>]

\* part_003 lines 81-87 without the clearTimeout.
ScheduleReloadKeepsTimer(w) == [w EXCEPT !.timers = @ + 1, !.burst = @ + 1]

\* part_003 lines 81-87: _scheduleReload.
ScheduleReload(w) == [w EXCEPT !.timers = 1, !.burst = @ + 1]

\* part_003 lines 89-96: _reload up to the loadConfig call.
Reload(w) ==
    IF w.reloading THEN [w EXCEPT !.pendingReload = TRUE, !.deferred = @ + 1]
    ELSE IF w.pc = "idle"
    THEN [w EXCEPT !.reloading = TRUE, !.pc = "loading", !.loads = @ + 1,
                   !.deferred = 0]
    ELSE [w EXCEPT !.reloading = TRUE, !.loads = @ + 1, !.deferred = 0,
                   !.extra = Append(@, [pc |-> "loading", json |-> <<>>,
                                        loaded |-> NoConfig])]

\* A _finishReload that leaves the reloading flag set.
FinishReloadStuck(w) == [w EXCEPT !.pc = "idle", !.json = <<>>, !.loaded = NoConfig]

\* A _finishReload that forgets the pending reload.
FinishReloadDropsPending(w) ==
    [w EXCEPT !.reloading = FALSE, !.pc = "idle", !.json = <<>>,
              !.loaded = NoConfig, !.pendingReload = FALSE]

\* part_003 lines 130-136: _finishReload.
FinishReload(w) ==
    LET w1 == [w EXCEPT !.reloading = FALSE, !.pc = "idle", !.json = <<>>,
                        !.loaded = NoConfig]
    IN IF w1.pendingReload THEN Reload([w1 EXCEPT !.pendingReload = FALSE]) ELSE w1

\* A comparison that never finds the config unchanged.
NeverUnchanged(w, json) == FALSE

\* part_003 line 99: json === this._lastJson.
Unchanged(w, json) == json = w.lastJson

\* part_003 lines 97-119: loadConfig resolved with config.
LoadResolved(w, config) ==
    LET json == JSONstringify(config)
    IN IF Unchanged(w, json) THEN FinishReload(w)
       ELSE IF w.listener
            THEN [w EXCEPT !.pc = "listener", !.json = json, !.loaded = config,
                           !.invoked = @ + 1]
            ELSE FinishReload([w EXCEPT !.lastJson = json])

\* part_003 lines 110-119: the listener's promise settled.
ListenerSettled(w, threw) ==
    IF threw THEN FinishReload([w EXCEPT !.threw = TRUE])
    ELSE FinishReload([w EXCEPT !.lastJson = w.json, !.applied = w.loaded])

\* part_003 lines 67-79: stop().
StopWatcher(w) ==
    [w EXCEPT !.timers = 0, !.watching = FALSE, !.listener = FALSE,
              !.reloading = FALSE, !.pendingReload = FALSE]

\* part_003 lines 36-65: start(listener, initialConfig) on a watcher that is
\* not watching; given tells whether initialConfig is passed.
StartWatcher(w, given, initialConfig) ==
    [w EXCEPT !.watching = TRUE, !.listener = TRUE,
              !.lastJson = IF given THEN JSONstringify(initialConfig) ELSE @]

\* The reload in flight at position i of extra is looked at in place of the
\* one of pc.
Focus(w, i) ==
    [w EXCEPT !.pc = w.extra[i].pc, !.json = w.extra[i].json,
              !.loaded = w.extra[i].loaded,
              !.extra[i] = [pc |-> w.pc, json |-> w.json, loaded |-> w.loaded]]

\* No idle entry is kept: extra holds reloads in flight only.
Settled(w) ==
    LET w1 == IF w.pc = "idle" /\ w.extra # <<>>
              THEN [w EXCEPT !.pc = Head(w.extra).pc, !.json = Head(w.extra).json,
                             !.loaded = Head(w.extra).loaded, !.extra = Tail(w.extra)]
              ELSE w
    IN [w1 EXCEPT !.extra = SelectSeq(@, LAMBDA f : f.pc # "idle")]

WatcherFrame == UNCHANGED <<registry, upstream, manager, probe, bridge, search>>

\* part_003 lines 58-63: fs.watch reports an event; the file may have been
\* rewritten.  changedFile is the config file's name, another name or null.
FileEvent(eventType, changedFile, content) ==
    /\ watcher.watching
    /\ watcher.events < MaxFileEvents
    /\ LET matches == changedFile = "config.json"
                         \/ (eventType = "rename" /\ changedFile = "null")
           w == [watcher EXCEPT !.events = @ + 1,
                                !.file = IF changedFile = "other.json" THEN @ ELSE content]
       IN /\ watcher' = IF matches THEN ScheduleReload(w) ELSE w
          /\ lastOp' = [op |-> "fs.event", matches |-> matches]
    /\ WatcherFrame

\* part_003 lines 83-86: a debounce timer fires.
DebounceFire ==
    /\ watcher.timers > 0
    /\ watcher' = Reload([watcher EXCEPT !.timers = @ - 1, !.burst = 0,
                                         !.reloadCalls = @ + 1,
                                         !.windows = IF watcher.burst > 0 THEN @ + 1 ELSE @])
    /\ lastOp' = [op |-> "debounce", n |-> watcher.burst]
    /\ WatcherFrame

\* loadConfig settles: the file is read and parsed.
LoadSettle ==
    /\ watcher.pc = "loading"
    /\ LET loaded == loadConfig(watcher.file)
       IN IF loaded.ok
          THEN /\ watcher' = Settled(LoadResolved(watcher, loaded.config))
               /\ lastOp' = [op |-> "load.resolved", config |-> loaded.config]
          ELSE /\ watcher' = Settled(FinishReload([watcher EXCEPT !.rejected = TRUE]))
               /\ lastOp' = [op |-> "load.rejected"]
    /\ WatcherFrame

\* The listener (onConfigReload of index.ts) returns or throws.
ListenerSettle(threw) ==
    /\ watcher.pc = "listener"
    /\ watcher' = Settled(ListenerSettled(watcher, threw))
    /\ lastOp' = [op |-> IF threw THEN "listener.threw" ELSE "listener.returned"]
    /\ WatcherFrame

\* loadConfig settles for the reload at position i of extra.
OtherLoadSettle(i) ==
    /\ watcher.extra[i].pc = "loading"
    /\ LET loaded == loadConfig(watcher.file)
           w == Focus(watcher, i)
       IN IF loaded.ok
          THEN /\ watcher' = Settled(LoadResolved(w, loaded.config))
               /\ lastOp' = [op |-> "load.resolved", config |-> loaded.config]
          ELSE /\ watcher' = Settled(FinishReload([w EXCEPT !.rejected = TRUE]))
               /\ lastOp' = [op |-> "load.rejected"]
    /\ WatcherFrame

\* The listener returns or throws for the reload at position i of extra.
OtherListenerSettle(i, threw) ==
    /\ watcher.extra[i].pc = "listener"
    /\ watcher' = Settled(ListenerSettled(Focus(watcher, i), threw))
    /\ lastOp' = [op |-> IF threw THEN "listener.threw" ELSE "listener.returned"]
    /\ WatcherFrame

\* part_003 lines 36-65: start() is called on the stopped watcher, with the
\* config in effect as initialConfig or with none.
WatcherStart(given) ==
    /\ ~watcher.watching
    /\ watcher' = StartWatcher(watcher, given, watcher.applied)
    /\ lastOp' = [op |-> "start", given |-> given]
    /\ WatcherFrame

\* index.ts line 179: shutdown stops the watcher.
WatcherStop ==
    /\ watcher.watching
    /\ watcher' = StopWatcher(watcher)
    /\ lastOp' = [op |-> "stop"]
    /\ WatcherFrame

WatcherConfigs == {[mcpServers |-> k] : k \in KeyOrders}

WatcherInit ==
    /\ registry = EmptyRegistry
    /\ upstream = EmptyMap
    /\ manager = NewManager
    /\ probe = EmptyMap
    /\ bridge = EmptyMap
    /\ watcher \in {StartedWatcher(c, [valid |-> TRUE, keys |-> c.mcpServers]) :
                       c \in WatcherConfigs}
    /\ search = EmptyMap
    /\ lastOp = NoOp

WatcherNext ==
    \/ \E t \in {"change", "rename"}, f \in {"config.json", "other.json", "null"},
          c \in FileContents : FileEvent(t, f, c)
    \/ DebounceFire
    \/ LoadSettle
    \/ \E threw \in BOOLEAN : ListenerSettle(threw)
    \/ WatcherStop

WatcherSpec == WatcherInit /\ [][WatcherNext]_vars

\* The watcher with stop() and start() called at any time.
RestartNext ==
    \/ \E t \in {"change", "rename"}, f \in {"config.json", "other.json", "null"},
          c \in FileContents : FileEvent(t, f, c)
    \/ DebounceFire
    \/ LoadSettle
    \/ \E threw \in BOOLEAN : ListenerSettle(threw)
    \/ \E i \in DOMAIN watcher.extra : OtherLoadSettle(i)
    \/ \E i \in DOMAIN watcher.extra, threw \in BOOLEAN : OtherListenerSettle(i, threw)
    \/ WatcherStop
    \/ \E given \in BOOLEAN : WatcherStart(given)

RestartSpec == WatcherInit /\ [][RestartNext]_vars

(***************************************************************************)
(* Tool Search Service (src/src/search/tool-search-service.ts, lines       *)
(* 1-572) behind the search_tools handler of the Bridge Server             *)
(*                                                                         *)
(* Text matching is the library's: a tool filter is modelled by the tools  *)
(* it matches ("t" and "u" match the tools of that original name, "all"    *)
(* every tool), a provider or category filter by the prefix test.  A Map   *)
(* is iterated in insertion order, which the registry model does not keep: *)
(* the index lists its tools in the order IndexOrder.                      *)
(***************************************************************************)
SearchSources == {<<"a">>, <<"b">>}
SearchToolNames == {<<"t">>, <<"u">>}

\* The tool lists an upstream can announce, namespaced as the manager's
\* listener does (part_002 lines 91-93).
SearchToolLists(source) ==
    {<<>>} \cup
    {<<namespaceTool(source, [name |-> n, ver |-> 1])>> : n \in SearchToolNames} \cup
    {<<namespaceTool(source, [name |-> <<"t">>, ver |-> 1]),
       namespaceTool(source, [name |-> <<"u">>, ver |-> 1])>>}

AllSearchNames ==
    {namespaceTool(s, [name |-> n, ver |-> 1]).name : s \in SearchSources, n \in SearchToolNames}

\* The order in which the index lists its tools.
IndexOrder ==
    LET nm(s, n) == namespaceTool(s, [name |-> n, ver |-> 1]).name
    IN <<nm(<<"a">>, <<"t">>), nm(<<"a">>, <<"u">>), nm(<<"b">>, <<"t">>), nm(<<"b">>, <<"u">>)>>

\* An absent number (limit or offset not given).
NoNumber == -1

\* SearchQuery (lines 7-14); "" is an absent string.
NoQuery ==
    [tool |-> "", provider |-> "", category |-> "", expand_tools |-> FALSE,
     limit |-> NoNumber, offset |-> NoNumber]

\* The queries of the model: detail by tool name with a limit above the
\* cap, a provider summary, a provider detail from offset 1 with the default
\* limit, and a query without any filter.
SearchQuery ==
    {[NoQuery EXCEPT !.tool = "t", !.limit = MAX_LIMIT + 1],
     [NoQuery EXCEPT !.tool = "u", !.limit = MAX_LIMIT + 1],
     [NoQuery EXCEPT !.provider = "a"],
     [NoQuery EXCEPT !.provider = "a", !.expand_tools = TRUE, !.offset = 1],
     NoQuery}

\* The policy engines the service is built with.
SearchPolicyEngines ==
    {[globalPolicy |-> "always", serverConfigs |-> EmptyMap],
     [globalPolicy |-> "always",
      serverConfigs |-> [s \in {<<"a">>} |->
          [toolPolicy |-> Undefined, tools |-> [n \in {<<"t">>} |-> "never"]]]]}

\* Lines 244-262: the documents of the index, one per registered tool.
IndexDocs(reg) ==
    [n \in DOMAIN reg.tools |->
        LET parsed == parseNamespacedName(n)
            source == reg.tools[n].source
        IN [source |-> source,
            originalName |-> IF parsed.found THEN parsed.toolName ELSE n,
            category |-> IF MapHas(reg.sourceCategories, source)
                         THEN reg.sourceCategories[source] ELSE ""]]

\* Lines 244-277: rebuildIndex, the registry's change listener; the result
\* says how often notifyVisibleToolsChanged ran.
rebuildIndex(st, reg) ==
    LET docs == IndexDocs(reg)
        kept == st.enabledTools \cap DOMAIN docs
    IN [st |-> [st EXCEPT !.indexedTools = docs, !.enabledTools = kept],
        notified |-> IF kept # st.enabledTools THEN 1 ELSE 0]

\* Lines 220-228: the service right after construction.
NewSearchService(reg, pe) ==
    [indexedTools |-> IndexDocs(reg), enabledTools |-> {}, policyEngine |-> pe]

\* Lines 102-106 for a plain prefix, on a source and on a category; the
\* sources and the categories of the model differ in their first letter.
MatchesProvider(source, pattern) == source = <<pattern>>
MatchesCategory(category, pattern) == category = pattern

\* Lines 363-386: the tools a tool filter matches.
ToolCandidates(st, pattern) ==
    {n \in DOMAIN st.indexedTools :
        \/ pattern = "all"
        \/ st.indexedTools[n].originalName = <<pattern>>}

\* Lines 289-293 and 312: the flags of a query.
HasToolFilter(q) == q.tool # ""
HasProviderFilter(q) == q.provider # ""
HasCategoryFilter(q) == q.category # ""
IsSummary(q) == ~HasToolFilter(q) /\ ~q.expand_tools
HasFilter(q) == HasToolFilter(q) \/ HasProviderFilter(q) \/ HasCategoryFilter(q)

Max(a, b) == IF a >= b THEN a ELSE b

\* Lines 307-311.
QueryLimit(q) == Min(Max(1, IF q.limit = NoNumber THEN DEFAULT_LIMIT ELSE q.limit), MAX_LIMIT)
QueryOffset(q) == Max(0, IF q.offset = NoNumber THEN 0 ELSE q.offset)

\* Lines 358-416: the candidates of a detail query, the filters intersected.
Candidates(st, q) ==
    {n \in DOMAIN st.indexedTools :
        /\ HasToolFilter(q) => n \in ToolCandidates(st, q.tool)
        /\ HasProviderFilter(q) =>
              MatchesProvider(st.indexedTools[n].source, q.provider)
        /\ HasCategoryFilter(q) =>
              /\ st.indexedTools[n].category # ""
              /\ MatchesCategory(st.indexedTools[n].category, q.category)}

\* Lines 432-441: the tools of a page the policy resolves to never.
DisabledSet(st, paged) ==
    {n \in Range(paged) :
        LET parsed == parseNamespacedName(n)
        IN /\ parsed.found
           /\ resolvePolicy(st.policyEngine, parsed.source, parsed.toolName) = "never"}

Slice(seq, from, to) == SubSeq(seq, from + 1, Min(to, Len(seq)))

\* A summary query that marks the tools of the matched providers as seen.
SummaryMarksSeen(st, q, acc) ==
    [acc EXCEPT !.seenTools = @ \cup Candidates(st, q),
                !.results = Append(@, [kind |-> "summary", tools |-> <<>>, disabled |-> {}])]

\* Lines 314-356: a summary query; nothing is seen or enabled.
SummaryQuery(st, q, acc) ==
    [acc EXCEPT !.results = Append(@, [kind |-> "summary", tools |-> <<>>, disabled |-> {}])]

\* Lines 358-505: a detail query; total is the length of the deduplicated
\* list (line 438), of which the page is a slice.
DetailQuery(st, reg, q, acc) ==
    LET candidates == Candidates(st, q)
        deduped == SelectSeq(IndexOrder,
                             LAMBDA n : n \in candidates /\ n \notin acc.seenTools)
        paged == Slice(deduped, QueryOffset(q), QueryOffset(q) + QueryLimit(q))
        disabledSet == DisabledSet(st, paged)
        shown == SelectSeq(paged, LAMBDA n : MapHas(st.indexedTools, n) /\ MapHas(reg.tools, n))
        enabled == SelectSeq(shown, LAMBDA n : n \notin disabledSet)
    IN [acc EXCEPT !.seenTools = @ \cup Range(deduped),
                   !.allEnabled = @ \o enabled,
                   !.results = Append(@, [kind |-> "detail", tools |-> shown,
                                          disabled |-> disabledSet,
                                          total |-> Len(deduped)])]

\* Lines 288-506: the loop over the queries.
RECURSIVE RunQueries(_, _, _, _)
RunQueries(st, reg, queries, acc) ==
    IF queries = <<>> THEN acc
    ELSE LET q == Head(queries)
             next == IF ~HasFilter(q)
                     THEN [acc EXCEPT !.results =
                              Append(@, [kind |-> "empty", tools |-> <<>>, disabled |-> {}])]
                     ELSE IF IsSummary(q) THEN SummaryQuery(st, q, acc)
                     ELSE DetailQuery(st, reg, q, acc)
         IN RunQueries(st, reg, Tail(queries), next)

\* A search that enables every tool of the pages.
UncappedEnabled(allEnabled) == allEnabled

\* Lines 508-509: the cap on the enabled tools.
CappedEnabled(allEnabled) == Slice(allEnabled, 0, MAX_LIMIT)

\* A search that never notifies.
NeverChanged(old, new) == FALSE

\* Lines 94-100 and 512: changed = !setsEqual(this.enabledTools, newEnabled).
EnabledChanged(old, new) == ~(Cardinality(old) = Cardinality(new) /\ \A n \in old : n \in new)

\* A search that adds the new tools to the enabled ones.
KeepEnabled(old, new) == old \cup new

\* Line 513: this.enabledTools = newEnabled.
ReplaceEnabled(old, new) == new

\* Lines 280-532: search(params).
Search(st, reg, queries) ==
    IF queries = <<>>
    THEN [st |-> st, results |-> <<>>, notified |-> 0]
    ELSE LET acc == RunQueries(st, reg, queries,
                               [seenTools |-> {}, allEnabled |-> <<>>, results |-> <<>>])
             newEnabled == Range(CappedEnabled(acc.allEnabled))
         IN [st |-> [st EXCEPT !.enabledTools = ReplaceEnabled(@, newEnabled)],
             results |-> acc.results,
             notified |-> IF EnabledChanged(st.enabledTools, newEnabled) THEN 1 ELSE 0]

SearchFrame == UNCHANGED <<upstream, manager, probe, bridge, watcher>>

\* bridge-server.ts lines 85-120: a tools/call of search_tools.
SearchToolsRequest(queries) ==
    /\ IF queries = <<>> \/ \E i \in DOMAIN queries : ~HasFilter(queries[i])
       THEN /\ search' = search
            /\ lastOp' = [op |-> "search_tools", isError |-> TRUE, queries |-> queries]
       ELSE LET r == Search(search, registry, queries)
            IN /\ search' = r.st
               /\ lastOp' = [op |-> "search_tools", isError |-> FALSE,
                             queries |-> queries, previous |-> search.enabledTools,
                             results |-> r.results, notified |-> r.notified]
    /\ UNCHANGED registry
    /\ SearchFrame

\* The manager's listeners change the registry (part_002 lines 91-104), and
\* the registry notifies the search service.
SearchSetTools(s, ts) ==
    /\ registry' = setToolsForSource(registry, s, ts)
    /\ LET r == rebuildIndex(search, registry')
       IN /\ search' = r.st
          /\ lastOp' = [op |-> "registry.setTools", source |-> s, notified |-> r.notified]
    /\ SearchFrame

SearchRemoveSource(s) ==
    /\ registry' = removeSource(registry, s)
    /\ LET r == IF removeSourceNotifies(registry, s)
                THEN rebuildIndex(search, registry')
                ELSE [st |-> search, notified |-> 0]
       IN /\ search' = r.st
          /\ lastOp' = [op |-> "registry.removeSource", source |-> s,
                        notified |-> r.notified]
    /\ SearchFrame

SearchQueryLists == SeqsUpTo(SearchQuery, MaxQueries)

SearchInit ==
    /\ registry = EmptyRegistry
    /\ upstream = EmptyMap
    /\ manager = NewManager
    /\ probe = EmptyMap
    /\ bridge = EmptyMap
    /\ watcher = EmptyMap
    /\ search \in {NewSearchService(EmptyRegistry, pe) : pe \in SearchPolicyEngines}
    /\ lastOp = NoOp

SearchNext ==
    \/ \E qs \in SearchQueryLists : SearchToolsRequest(qs)
    \/ \E s \in SearchSources : \E ts \in SearchToolLists(s) : SearchSetTools(s, ts)
    \/ \E s \in SearchSources : SearchRemoveSource(s)

SearchSpec == SearchInit /\ [][SearchNext]_vars

(***************************************************************************)
(* The list the bridge returns for tools/list (bridge-server.ts lines      *)
(* 75-80, with the search service index.ts always gives it) under upstream *)
(* tool-list changes and hot reloads of the global tool policy.  The       *)
(* bridge's only subscription is to the service's visible-tools event      *)
(* (lines 154-159): one tools/list_changed is sent per run of              *)
(* notifyVisibleToolsChanged.                                              *)
(***************************************************************************)
\* Lines 535-544: the definitions tools/list returns after the two fixed
\* ones (search_tools and run_tool, which never change).
getVisibleTools(st, reg) ==
    {reg.tools[n].tool : n \in {m \in st.enabledTools : MapHas(reg.tools, m)}}

\* PolicyEngine.update is not in policy-engine.ts; by the specification it
\* replaces the engine's state with its two arguments.
update(pe, globalPolicy, serverConfigs) ==
    [globalPolicy |-> globalPolicy, serverConfigs |-> serverConfigs]

\* The tool lists an upstream announces: tool t in two versions of its
\* definition, alone or with tool u, or no tool.
VisibleToolLists(source) ==
    {<<>>,
     <<namespaceTool(source, [name |-> <<"t">>, ver |-> 1])>>,
     <<namespaceTool(source, [name |-> <<"t">>, ver |-> 2])>>,
     <<namespaceTool(source, [name |-> <<"t">>, ver |-> 1]),
       namespaceTool(source, [name |-> <<"u">>, ver |-> 1])>>}

\* The search_tools calls: by tool name, every tool of provider a, or an
\* empty list of queries.
VisibleQueryLists ==
    {<<>>,
     <<[NoQuery EXCEPT !.tool = "t"]>>,
     <<[NoQuery EXCEPT !.tool = "u"]>>,
     <<[NoQuery EXCEPT !.provider = "a", !.expand_tools = TRUE, !.limit = MAX_LIMIT]>>}

\* index.ts lines 96-137: the reload handler for a new config that differs
\* from the running one in _bridge.toolPolicy only: no server changes, so
\* policyEngine.update (line 119) is all that touches the state here.
ReloadToolPolicy(p) ==
    /\ p # search.policyEngine.globalPolicy
    /\ search' = [search EXCEPT
                     !.policyEngine = update(@, p, search.policyEngine.serverConfigs)]
    /\ lastOp' = [op |-> "onConfigReload", toolPolicy |-> p, notified |-> 0]
    /\ UNCHANGED registry
    /\ SearchFrame

VisibleInit ==
    /\ registry = EmptyRegistry
    /\ upstream = EmptyMap
    /\ manager = NewManager
    /\ probe = EmptyMap
    /\ bridge = EmptyMap
    /\ watcher = EmptyMap
    /\ search = NewSearchService(EmptyRegistry,
                                 [globalPolicy |-> "always", serverConfigs |-> EmptyMap])
    /\ lastOp = NoOp

VisibleNext ==
    \/ \E qs \in VisibleQueryLists : SearchToolsRequest(qs)
    \/ \E s \in SearchSources : \E ts \in VisibleToolLists(s) : SearchSetTools(s, ts)
    \/ \E s \in SearchSources : SearchRemoveSource(s)
    \/ \E p \in {"always", "never"} : ReloadToolPolicy(p)

VisibleSpec == VisibleInit /\ [][VisibleNext]_vars

(***************************************************************************)
(* Claims about the manager                                                *)
(***************************************************************************)
\* C11 (reload equivalence): when applyConfigDiff(diffConfigs(c, c'), c')
\* completes on a system that was as booted from c, the system is as booted
\* from c': the same managed names, each client made from its c' server
\* config, and the same source -> category mapping in the registry.
C11_ReloadEquivalence ==
    [][(/\ manager'.op = Idle
        /\ \/ manager.op.kind = "apply" /\ manager.op.asBooted
           \/ /\ manager.op = Idle
              /\ lastOp'.op = "applyConfigDiff"
              /\ BootedFrom(World, manager.config))
          => BootedFrom([registry |-> registry', upstream |-> upstream',
                         manager |-> manager', probe |-> probe'], manager'.config)]_vars

\* C22 (metadata-only update): applying a diff whose entry for an upstream
\* is in updated sets the registry's category of that upstream to the new
\* config's category (none when it has none) and changes nothing else: the
\* client objects and their fields, the manager's clients and listeners, the
\* registered tools and the source index stay as they were.
C22_UpdatedIsMetadataOnly ==
    [][(lastOp'.op = "applyConfigDiff" /\ lastOp'.diff.updated # <<>>
        /\ lastOp'.diff.removed = <<>> /\ lastOp'.diff.reconnect = <<>>
        /\ lastOp'.diff.added = <<>>) =>
          /\ upstream' = upstream
          /\ manager'.clients = manager.clients
          /\ manager'.unsubscribers = manager.unsubscribers
          /\ manager'.created = manager.created
          /\ registry'.tools = registry.tools
          /\ registry'.sourceIndex = registry.sourceIndex
          /\ \A n \in Range(lastOp'.diff.updated) :
                LET category == lastOp'.newConfig[n].category
                IN IF category = NoCategory
                   THEN ~MapHas(registry'.sourceCategories, n)
                   ELSE /\ MapHas(registry'.sourceCategories, n)
                        /\ registry'.sourceCategories[n] = category
          /\ \A n \in DOMAIN registry.sourceCategories \ Range(lastOp'.diff.updated) :
                /\ MapHas(registry'.sourceCategories, n)
                /\ registry'.sourceCategories[n] = registry.sourceCategories[n]]_vars

\* C22 witness: a metadata-only update has been applied to a connected
\* upstream with a registered tool.
C22_Witness ==
    /\ lastOp.op = "applyConfigDiff"
    /\ lastOp.diff.updated # <<>>
    /\ DOMAIN registry.tools # {}
    /\ \E n \in DOMAIN manager.clients :
          upstream[manager.clients[n]].status = "connected"

\* C14 (closeAll is final): once closeAll() has completed, the health loop
\* is stopped, the manager holds no clients, the registry holds no tool of a
\* source the manager had, and none of the clients it closed has a reconnect
\* timer armed, is connecting again or is connected.
C14_CloseAllFinal ==
    manager.closeAll.pc = "done" =>
        /\ ~manager.healthTimer
        /\ manager.clients = EmptyMap
        /\ \A n \in DOMAIN registry.tools :
               registry.tools[n].source \notin manager.closeAll.names
        /\ \A o \in manager.closeAll.objs \cap DOMAIN upstream :
               /\ ~upstream[o].reconnectTimer
               /\ upstream[o].closed

\* C15 (connectAll result): connectAll starts with nothing failed; each
\* settled connect attempt of a client it created adds the upstream's name to
\* failed exactly when the attempt was rejected; a client whose attempt
\* resolved has its tools registered whatever the others did; and with the
\* last attempt settled connectAll resolves with total = the number of
\* upstreams, failed = the names rejected and connected = total - |failed|.
C15_ConnectAllResult ==
    [][/\ (lastOp'.op = "connectAll" /\ manager'.op # Idle) =>
              /\ manager'.op.failed = {}
              /\ manager'.op.pending = DOMAIN manager.config
              /\ manager'.result = {}
       /\ (lastOp'.op = "connectAll" /\ manager'.op = Idle) =>
              /\ DOMAIN manager.config = {}
              /\ manager'.result = {[total |-> 0, connected |-> 0, failed |-> {}]}
       /\ (/\ manager.op # Idle
           /\ manager.op.kind = "connectAll"
           /\ lastOp'.op \in {"connectFail", "connected"}
           /\ "manager" \in Range(upstream[lastOp'.client].waiters)) =>
              LET o == lastOp'.client
                  n == probe[o].name
                  failed == IF lastOp'.op = "connectFail"
                            THEN manager.op.failed \cup {n}
                            ELSE manager.op.failed
                  total == Cardinality(DOMAIN manager.config)
              IN /\ lastOp'.op = "connected" =>
                        \A i \in DOMAIN upstream'[o].tools :
                           LET t == namespaceTool(n, upstream'[o].tools[i])
                           IN /\ MapHas(registry'.tools, t.name)
                              /\ registry'.tools[t.name].source = n
                 /\ IF manager.op.pending = {n}
                    THEN /\ manager'.op = Idle
                         /\ manager'.result =
                               {[total |-> total,
                                 connected |-> total - Cardinality(failed),
                                 failed |-> failed]}
                    ELSE /\ manager'.result = {}
                         /\ manager'.op.failed = failed
                         /\ manager'.op.pending = manager.op.pending \ {n}
       /\ (manager'.result # manager.result) =>
              lastOp'.op \in {"connectAll", "connectFail", "connected"}]_vars

\* C15 witness: connectAll has resolved for two upstreams of which exactly one
\* failed, and the other's tool is in the registry.
C15_Witness ==
    /\ \E r \in manager.result :
           r.total = 2 /\ r.connected = 1 /\ Cardinality(r.failed) = 1
    /\ DOMAIN registry.tools # {}

\* C16 (error means no tools): whenever a client the manager holds is in
\* status error, the registry contains no tool whose source is that
\* upstream's name.
C16_ErrorHasNoTools ==
    \A n \in DOMAIN manager.clients :
        (/\ manager.clients[n] \in DOMAIN upstream
         /\ upstream[manager.clients[n]].status = "error") =>
            \A t \in DOMAIN registry.tools : registry.tools[t].source # n

(***************************************************************************)
(* Claims about tools/call and the policy engine                           *)
(***************************************************************************)
\* C12 (policy before call): whenever the tools/call handler invokes the
\* upstream's callTool, enforce has returned normally for that tool: its
\* policy does not resolve to never, and when it resolves to prompt the
\* user's action was accept.
C12_PolicyBeforeCall ==
    [][lastOp'.op = "callTool" =>
          LET parsed == parseNamespacedName(lastOp'.name)
              policy == resolvePolicy(bridge.policyEngine, parsed.source, parsed.toolName)
          IN /\ lastOp'.enforce = "returned"
             /\ policy # "never"
             /\ policy = "prompt" => lastOp'.action = "accept"]_vars

\* C12 witness: callTool was invoked for a tool of policy prompt after accept.
C12_Witness ==
    /\ lastOp.op = "callTool"
    /\ lastOp.policy = "prompt"
    /\ lastOp.action = "accept"

\* C27 (routing): a tools/call request for a registered tool s__t (the entry
\* of the name is owned by upstream s, which announced it as t) that is
\* answered with a result has made exactly one callTool, on the client of
\* upstream s, with tool name t and the request's arguments, and the answer
\* is the result that callTool resolved with.
C27_RoutesToOwner ==
    [][(/\ lastOp'.op = "tools/call"
        /\ lastOp'.response.kind = "result"
        /\ MapHas(registry.tools, lastOp'.name)
        /\ MapHas(manager.clients, registry.tools[lastOp'.name].source)) =>
          LET s == registry.tools[lastOp'.name].source
              t == SubSeq(lastOp'.name, Len(s) + Len(NAMESPACE_SEPARATOR) + 1,
                          Len(lastOp'.name))
          IN /\ lastOp'.invoked = <<[client |-> manager.clients[s],
                                     toolName |-> t,
                                     arguments |-> lastOp'.arguments]>>
             /\ lastOp'.response.result = lastOp'.settled.result]_vars

\* C31 (routing target is the owner): every registered name n parses to the
\* source the registry records as the owner of n, and when the handler of a
\* tools/call for a registered name n invokes callTool, it does so on the
\* client the manager holds for that owner.
C31_RouteTargetIsOwner ==
    [][/\ \A n \in DOMAIN registry'.tools :
             /\ parseNamespacedName(n).found
             /\ parseNamespacedName(n).source = registry'.tools[n].source
       /\ (lastOp'.op = "callTool" /\ MapHas(registry.tools, lastOp'.name)) =>
             /\ MapHas(manager.clients, registry.tools[lastOp'.name].source)
             /\ lastOp'.client = manager.clients[registry.tools[lastOp'.name].source]]_vars

\* C28 (no collisions): when the tool list of upstream s1 is namespaced and
\* registered, the namespaced name is not the name of an entry owned by
\* another upstream s2, and every entry owned by another upstream stays in
\* the registry with its owner and tool.
C28_NoCollision ==
    [][lastOp'.op = "onToolsChanged" =>
          \A n \in DOMAIN registry.tools :
              registry.tools[n].source # lastOp'.source =>
                 /\ n # lastOp'.name
                 /\ MapHas(registry'.tools, n)
                 /\ registry'.tools[n] = registry.tools[n]]_vars

\* The string holds the separator somewhere.
ContainsSeparator(str) ==
    \E i \in 1..(Len(str) - 1) : SubSeq(str, i, i + 1) = NAMESPACE_SEPARATOR

\* C29 (round trip): for an upstream name s and a tool name t that holds no
\* "__", parseNamespacedName(namespaceTool(s, t).name) is {source: s,
\* toolName: t}.
C29_RoundTrip ==
    [][(lastOp'.op = "parseNamespacedName" /\ ~ContainsSeparator(lastOp'.toolName)) =>
          /\ lastOp'.parsed.found
          /\ lastOp'.parsed.source = lastOp'.source
          /\ lastOp'.parsed.toolName = lastOp'.toolName]_vars

\* C13 (enforce failures): every error enforce fails with is an
\* InvalidRequest error, and when elicitFn itself failed it is the
\* "requires confirmation but the client does not support elicitation" one.
C13_EnforceFailsInvalidRequest ==
    [][(lastOp'.op = "tools/call" /\ lastOp'.enforce = "threw") =>
          /\ lastOp'.response.error.code = "InvalidRequest"
          /\ ("elicitThrew" \in DOMAIN lastOp' /\ lastOp'.elicitThrew) =>
                 lastOp'.response.error.message =
                     "requires confirmation but the client does not support elicitation"]_vars

(***************************************************************************)
(* Claims about the config watcher (checked under WatcherSpec)             *)
(***************************************************************************)
\* C19 (debounce coalescing): the N >= 1 events of one debounce window arm
\* one timer and start no reload themselves; the timer's firing calls
\* _reload exactly once, which starts one load or, while a reload is in
\* flight, leaves it pending; a pending reload starts exactly one load when
\* the reload in flight finishes, and no load starts at any other step.
C19_DebounceCoalescing ==
    [][/\ lastOp'.op = "fs.event" =>
             /\ watcher'.loads = watcher.loads
             /\ watcher'.reloadCalls = watcher.reloadCalls
             /\ lastOp'.matches => watcher'.timers = 1
       /\ lastOp'.op = "debounce" =>
             /\ lastOp'.n >= 1
             /\ watcher'.timers = 0
             /\ watcher'.reloadCalls = watcher.reloadCalls + 1
             /\ IF watcher.reloading
                THEN watcher'.pendingReload /\ watcher'.loads = watcher.loads
                ELSE watcher'.loads = watcher.loads + 1
       /\ lastOp'.op \in {"load.resolved", "load.rejected",
                          "listener.threw", "listener.returned"} =>
             watcher'.loads = IF watcher.pendingReload /\ watcher'.pc # "listener"
                              THEN watcher.loads + 1 ELSE watcher.loads
       /\ lastOp'.op = "stop" => watcher'.loads = watcher.loads
       /\ watcher'.reloadCalls = watcher'.windows]_vars

\* C19 witness: a window of three events has ended and one load is running.
C19_Witness ==
    /\ lastOp.op = "debounce"
    /\ lastOp.n = 3
    /\ watcher.loads = 1
    /\ watcher.pc = "loading"

\* C20 (no-op reload): when the config just loaded serialises to the same
\* JSON as the config in effect (the initial one or the last one the
\* listener accepted), the listener is not invoked.
C20_NoOpReload ==
    [][(/\ lastOp'.op = "load.resolved"
        /\ JSONstringify(lastOp'.config) = JSONstringify(watcher.applied)) =>
           /\ watcher'.invoked = watcher.invoked
           /\ watcher'.pc # "listener"]_vars

\* C20 witness: after a reload the listener accepted, the file was loaded
\* again with the same content and the listener was not invoked for it.
C20_Witness ==
    /\ lastOp.op = "load.resolved"
    /\ JSONstringify(lastOp.config) = JSONstringify(watcher.applied)
    /\ watcher.invoked = 1
    /\ watcher.loads = 2

\* C21 (a failed reload does not stop the watcher): a rejected load invokes
\* no listener and a throwing listener changes nothing but the end of that
\* reload; after either the watcher still watches with its listener and its
\* remembered JSON, and no reload is left marked in flight without a load or
\* a listener call running; a load that resolves with a config whose JSON
\* differs from the remembered one is handed to the listener, whatever
\* failed before.
C21_FailedReloadContained ==
    [][/\ lastOp'.op \in {"load.rejected", "listener.threw"} =>
             /\ watcher'.invoked = watcher.invoked
             /\ watcher'.watching = watcher.watching
             /\ watcher'.listener = watcher.listener
             /\ watcher'.lastJson = watcher.lastJson
             /\ watcher'.applied = watcher.applied
             /\ watcher'.timers = watcher.timers
       /\ (/\ lastOp'.op = "load.resolved"
           /\ watcher.listener
           /\ JSONstringify(lastOp'.config) # watcher.lastJson) =>
             /\ watcher'.invoked = watcher.invoked + 1
             /\ watcher'.pc = "listener"
             /\ watcher'.loaded = lastOp'.config
       /\ watcher'.reloading => watcher'.pc \in {"loading", "listener"}
       /\ (watcher'.watching /\ watcher'.pc = "idle") => ~watcher'.reloading
       /\ watcher'.watching => watcher'.listener]_vars

\* C21 witness: after a rejected load and a listener that threw, a changed
\* valid config has been handed to the listener.
C21_Witness ==
    /\ lastOp.op = "load.resolved"
    /\ watcher.pc = "listener"
    /\ watcher.rejected
    /\ watcher.threw
    /\ watcher.watching

\* C33 (pending reload): when a reload of a running watcher finishes, one
\* more reload is started, at that step, if one or more _reload calls found
\* it in flight, and none is started otherwise; however many calls there
\* were, nothing is left pending.
C33_OnePendingReload ==
    [][(/\ lastOp'.op \in {"load.resolved", "load.rejected",
                           "listener.threw", "listener.returned"}
        /\ watcher.watching
        /\ watcher'.pc # "listener") =>
           /\ ~watcher'.pendingReload
           /\ IF watcher.deferred >= 1
              THEN /\ watcher'.loads = watcher.loads + 1
                   /\ watcher'.pc = "loading"
                   /\ watcher'.reloading
              ELSE /\ watcher'.loads = watcher.loads
                   /\ watcher'.pc = "idle"
                   /\ ~watcher'.reloading]_vars

\* C33 witness: two debounce timers fired while the first reload's listener
\* was running, and when it returned the second load began.
C33_Witness ==
    /\ lastOp.op = "listener.returned"
    /\ watcher.watching
    /\ watcher.reloadCalls = 3
    /\ watcher.loads = 2
    /\ watcher.pc = "loading"

\* The listener invocations in progress.
InListener(w) ==
    Cardinality({i \in DOMAIN w.extra : w.extra[i].pc = "listener"})
        + (IF w.pc = "listener" THEN 1 ELSE 0)

\* C34 (reloads are serialised): whatever file events, timer firings and
\* stop() and start() calls came before, a step that starts a load leaves no
\* listener invocation in progress, and a step that invokes the listener
\* leaves no other invocation in progress.
C34_ReloadsSerialised ==
    [][/\ watcher'.loads > watcher.loads => InListener(watcher') = 0
       /\ watcher'.invoked > watcher.invoked => InListener(watcher') = 1]_vars

(***************************************************************************)
(* Claims about the search service (checked under SearchSpec)              *)
(***************************************************************************)
\* C23 (search replaces the enabled set): after a search call the enabled
\* set is made of non-disabled tools on the pages of the call's detail
\* queries, all of them or MAX_LIMIT of them when there are more, whatever
\* was enabled before.
C23_SearchReplacesEnabled ==
    [][(lastOp'.op = "search_tools" /\ ~lastOp'.isError) =>
          LET pages == {lastOp'.results[i] : i \in DOMAIN lastOp'.results}
              paged == UNION {Range(r.tools) \ r.disabled : r \in pages}
          IN /\ search'.enabledTools \subseteq paged
             /\ Cardinality(search'.enabledTools) = Min(Cardinality(paged), MAX_LIMIT)]_vars

\* C23 witness: a search has left enabled a tool of its page and dropped a
\* tool that an earlier search had enabled.
C23_Witness ==
    /\ lastOp.op = "search_tools"
    /\ ~lastOp.isError
    /\ search.enabledTools # {}
    /\ lastOp.previous \ search.enabledTools # {}

\* C24 (summary queries are inert): the detail queries of a search call
\* return the pages, and the call enables the tools, that the same call
\* without its summary queries would; a summary query's own result lists no
\* tool.
C24_SummaryIsInert ==
    [][(lastOp'.op = "search_tools" /\ ~lastOp'.isError) =>
          LET details == SelectSeq(lastOp'.queries, LAMBDA q : ~IsSummary(q))
              alone == RunQueries(search, registry, details,
                                  [seenTools |-> {}, allEnabled |-> <<>>, results |-> <<>>])
          IN /\ SelectSeq(lastOp'.results, LAMBDA r : r.kind # "summary") = alone.results
             /\ search'.enabledTools = Range(CappedEnabled(alone.allEnabled))
             /\ \A i \in DOMAIN lastOp'.results :
                   lastOp'.results[i].kind = "summary" => lastOp'.results[i].tools = <<>>]_vars

\* C24 witness: a call whose first query is a summary of provider a and
\* whose second query is a detail query that returned a tool of provider a.
C24_Witness ==
    /\ lastOp.op = "search_tools"
    /\ ~lastOp.isError
    /\ Len(lastOp.queries) = 2
    /\ IsSummary(lastOp.queries[1])
    /\ \E n \in Range(lastOp.results[2].tools) : search.indexedTools[n].source = <<"a">>

\* C25 (visible-tools notification): a search call runs the notification
\* once when the enabled set it leaves differs from the one it found, and
\* not at all when the two are equal.
C25_NotifiesOnChange ==
    [][(lastOp'.op = "search_tools" /\ ~lastOp'.isError) =>
          lastOp'.notified = IF search'.enabledTools # search.enabledTools THEN 1 ELSE 0]_vars

\* C25 witness: a search that left the same non-empty enabled set and did
\* not notify.
C25_Witness ==
    /\ lastOp.op = "search_tools"
    /\ ~lastOp.isError
    /\ lastOp.notified = 0
    /\ search.enabledTools # {}
    /\ lastOp.previous = search.enabledTools

\* C26 (enabled cap): the enabled set never holds more than MAX_LIMIT tools.
C26_EnabledCap ==
    search # EmptyMap => Cardinality(search.enabledTools) <= MAX_LIMIT

\* C26 witness: a search whose pages held more than MAX_LIMIT enabled tools
\* has left exactly MAX_LIMIT tools enabled.
C26_Witness ==
    /\ lastOp.op = "search_tools"
    /\ ~lastOp.isError
    /\ Cardinality(UNION {Range(lastOp.results[i].tools) \ lastOp.results[i].disabled :
                             i \in DOMAIN lastOp.results}) > MAX_LIMIT
    /\ Cardinality(search.enabledTools) = MAX_LIMIT

\* C39 (deduplication follows the pages): within one search call a tool
\* that matches a later detail query is left out of that query's
\* deduplicated list only if it was returned on the page of an earlier query
\* of the call, so the query's total counts every matching tool no earlier
\* page returned.
C39_OmittedOnlyIfReturned ==
    [][(lastOp'.op = "search_tools" /\ ~lastOp'.isError) =>
          \A i \in DOMAIN lastOp'.results :
              lastOp'.results[i].kind = "detail" =>
                  LET returned == UNION {Range(lastOp'.results[j].tools) : j \in 1..(i - 1)}
                  IN lastOp'.results[i].total =
                        Cardinality(Candidates(search, lastOp'.queries[i]) \ returned)]_vars

(***************************************************************************)
(* Claims about the visible tool list (checked under VisibleSpec)          *)
(***************************************************************************)
\* C37 (every change of tools/list is announced): whenever a step changes
\* the list the bridge would return for tools/list, because a tool enters or
\* leaves the visible set or because the definition of a visible tool is
\* replaced by its upstream, that step sends a tools/list_changed
\* notification.
C37_ListChangeNotified ==
    [][getVisibleTools(search', registry') # getVisibleTools(search, registry) =>
          lastOp'.notified >= 1]_vars

\* C38 (no disabled tool is visible): the visible tool list never contains
\* a tool whose policy currently resolves to never.
C38_NoDisabledVisible ==
    \A t \in getVisibleTools(search, registry) :
        LET parsed == parseNamespacedName(t.name)
        IN resolvePolicy(search.policyEngine, parsed.source, parsed.toolName) # "never"

====
